---- MODULE Spec2Model ----
(***************************************************************************)
(* Style-function expressions of mapbox-gl-js: the pipeline                *)
(*     JSON  --parseExpression-->  typed tree                              *)
(*           --typeCheckExpression-->  resolved tree                       *)
(*           --compile-->  compiled callable  --call--> value              *)
(* Every stage is a pure function of the source; it is modelled as an      *)
(* operator, and the state machine below applies the stages one after the  *)
(* other to an input drawn from bounded sets.                              *)
(***************************************************************************)
EXTENDS Integers, Sequences, FiniteSets, TLC

VARIABLES
    expr,            \* the JSON value handed to compileExpression
    expectedType,    \* its expectedType argument (Undefined when omitted)
    pc,              \* position inside compileExpression / the later call
    parsed,          \* result of parseExpression(expr)
    typecheckResult, \* result of typecheck(expectedType || parsed.type, parsed)
    compiled,        \* what compileExpression returns (or the exception it throws)
    mapProperties,   \* first argument of the last call of the compiled function
    feature,         \* second argument of that call
    output,          \* what that call returned (or threw)
    search,          \* the locals of a call of findStopLessThanOrEqualTo
    matching,        \* the arguments of a call of match and what it returned
    source,          \* a GlyphSource: its stacks and its loading table
    calls,           \* the calls of getSimpleGlyphs made so far, with their closures
    network          \* the requests handed to ajax.getArrayBuffer and not yet answered

\* the variables of the glyph source
glyphVars == <<source, calls, network>>

vars == <<expr, expectedType, pc, parsed, typecheckResult, compiled,
          mapProperties, feature, output, search, matching, glyphVars>>

(***************************************************************************)
(* Bounds of the model.                                                    *)
(***************************************************************************)
MaxArgs == 3        \* most arguments of a generated call
MaxMatchLen == 6    \* longest generated ["match", ...] array
MaxStops == 2       \* most stops of a generated ["curve", ...] array
MaxCalls == 3       \* most calls of getSimpleGlyphs in a behaviour

(***************************************************************************)
(* Small helpers.                                                          *)
(***************************************************************************)
Undefined == [undefined |-> TRUE]

IsDefined(x) == x # Undefined

Min(a, b) == IF a <= b THEN a ELSE b

Max(a, b) == IF a >= b THEN a ELSE b

\* ceil(a / b) for b > 0 and any integer a
CeilDiv(a, b) == -((-a) \div b)

Range(s) == {s[i] : i \in DOMAIN s}

RECURSIVE Flatten(_)
Flatten(ss) == IF ss = <<>> THEN <<>> ELSE Head(ss) \o Flatten(Tail(ss))

(***************************************************************************)
(* Types (types.js).  A type is a record with the fields of the source's   *)
(* objects; the printed name is kept only for primitives, where the code   *)
(* reads it.  ValueType is the one recursive variant: its last member is   *)
(* vector(ValueType), so it is a leaf here and members() unfolds it.       *)
(***************************************************************************)
primitive(name) == [kind |-> "primitive", name |-> name]

typename(tn) == [kind |-> "typename", typename |-> tn]

variant(types) == [kind |-> "variant", members |-> types]

vector(itemType) == [kind |-> "vector", itemType |-> itemType]

array(itemType, N) == [kind |-> "array", itemType |-> itemType, N |-> N]

anyArray(itemType) == [kind |-> "any_array", itemType |-> itemType]

nargs(N, types) == [kind |-> "nargs", types |-> types, N |-> N]

lambda(result, params) == [kind |-> "lambda", result |-> result, params |-> params]

NullType == primitive("null")
NumberType == primitive("number")
StringType == primitive("string")
BooleanType == primitive("boolean")
ColorType == primitive("color")
ObjectType == primitive("object")
InterpolationType == primitive("interpolation_type")

ValueType == [kind |-> "variant", recursive |-> "Value"]

members(type) ==
    IF type = ValueType
    THEN <<NullType, NumberType, StringType, BooleanType, ColorType, ObjectType,
           vector(ValueType)>>
    ELSE type.members

\* JavaScript's Infinity, the N of an unbounded nargs: above every argument count
Infinity == 1000000

(***************************************************************************)
(* JSON values.  Every kind has its own field so that values of different  *)
(* kinds are never compared field by field.                                *)
(***************************************************************************)
JNull == [j |-> "null"]
JNum(n) == [j |-> "number", n |-> n]
JStr(s) == [j |-> "string", s |-> s]
JBool(b) == [j |-> "boolean", b |-> b]
JObj(o) == [j |-> "object", o |-> o]
JArr(items) == [j |-> "array", items |-> items]

\* typeof x, for a JSON value that is not null
typeof(x) == IF x.j = "array" THEN "object" ELSE x.j

(***************************************************************************)
(* The registry (expressions.js): the declared signature of every          *)
(* operator.  `expressions` is a plain object literal, so expressions[op]  *)
(* also finds what the object inherits from Object.prototype.              *)
(***************************************************************************)
T == typename("T")
U == typename("U")

MathConstantType == lambda(NumberType, <<>>)

MathFunctionType == lambda(NumberType, <<NumberType>>)

BinaryMathOpType(isAssociative) ==
    IF isAssociative
    THEN lambda(NumberType, <<nargs(Infinity, <<NumberType>>)>>)
    ELSE lambda(NumberType, <<NumberType, NumberType>>)

ComparisonOpType == lambda(BooleanType, <<T, T>>)

BooleanOpType == lambda(BooleanType, <<nargs(Infinity, <<BooleanType>>)>>)

MathConstants == {"ln2", "pi", "e"}
MathFunctions == {"log10", "ln", "log2", "sin", "cos", "tan", "asin", "acos", "atan"}
ComparisonOps == {"==", "!=", ">", "<", ">=", "<="}
BooleanOps == {"&&", "||"}

ExpressionNames ==
    MathConstants \cup MathFunctions \cup ComparisonOps \cup BooleanOps \cup
    {"string", "number", "boolean", "json_array", "object", "color", "array",
     "vector", "color_to_array", "get", "has", "at", "typeof", "length",
     "properties", "geometry_type", "id", "zoom", "+", "*", "-", "/", "%", "^",
     "!", "upcase", "downcase", "concat", "rgb", "rgba", "case", "match",
     "coalesce", "curve", "step", "exponential", "linear"}

\* own properties of Object.prototype: truthy values without a `type`
ObjectPrototypeNames ==
    {"constructor", "toString", "valueOf", "hasOwnProperty", "isPrototypeOf",
     "propertyIsEnumerable", "toLocaleString", "__proto__"}

definitionType(op) ==
    CASE op \in MathConstants -> MathConstantType
      [] op \in MathFunctions -> MathFunctionType
      [] op \in ComparisonOps -> ComparisonOpType
      [] op \in BooleanOps -> BooleanOpType
      [] op = "string" -> lambda(StringType, <<ValueType>>)
      [] op = "number" -> lambda(NumberType, <<ValueType>>)
      [] op = "boolean" -> lambda(BooleanType, <<ValueType>>)
      [] op = "json_array" -> lambda(vector(ValueType), <<ValueType>>)
      [] op = "object" -> lambda(ObjectType, <<ValueType>>)
      [] op = "color" -> lambda(ColorType, <<StringType>>)
      [] op = "array" -> lambda(anyArray(T), <<nargs(Infinity, <<T>>)>>)
      [] op = "vector" -> lambda(vector(T), <<nargs(Infinity, <<T>>)>>)
      [] op = "color_to_array" -> lambda(array(NumberType, 4), <<ColorType>>)
      [] op = "get" -> lambda(ValueType, <<StringType, nargs(1, <<ObjectType>>)>>)
      [] op = "has" -> lambda(BooleanType, <<StringType, nargs(1, <<ObjectType>>)>>)
      [] op = "at" -> lambda(T, <<NumberType, variant(<<vector(T), anyArray(T)>>)>>)
      [] op = "typeof" -> lambda(StringType, <<ValueType>>)
      [] op = "length" -> lambda(NumberType, <<variant(<<vector(T), StringType>>)>>)
      [] op = "properties" -> lambda(ObjectType, <<>>)
      [] op = "geometry_type" -> lambda(StringType, <<>>)
      [] op = "id" -> lambda(ValueType, <<>>)
      [] op = "zoom" -> lambda(NumberType, <<>>)
      [] op \in {"+", "*"} -> BinaryMathOpType(TRUE)
      [] op \in {"-", "/", "%"} -> BinaryMathOpType(FALSE)
      [] op = "^" -> lambda(NumberType, <<NumberType, NumberType>>)
      [] op = "!" -> lambda(BooleanType, <<BooleanType>>)
      [] op \in {"upcase", "downcase"} -> lambda(StringType, <<StringType>>)
      [] op = "concat" -> lambda(StringType, <<nargs(Infinity, <<ValueType>>)>>)
      [] op = "rgb" -> lambda(ColorType, <<NumberType, NumberType, NumberType>>)
      [] op = "rgba" ->
            lambda(ColorType, <<NumberType, NumberType, NumberType, NumberType>>)
      [] op = "case" -> lambda(T, <<nargs(Infinity, <<BooleanType, T>>), T>>)
      [] op = "match" -> lambda(T, <<U, nargs(Infinity, <<T>>)>>)
      [] op = "coalesce" -> lambda(T, <<nargs(Infinity, <<T>>)>>)
      [] op = "curve" ->
            lambda(T, <<InterpolationType, NumberType,
                        nargs(Infinity, <<NumberType, T>>)>>)
      [] op \in {"step", "linear"} -> lambda(InterpolationType, <<>>)
      [] op = "exponential" -> lambda(InterpolationType, <<NumberType>>)
      [] OTHER -> Undefined

\* expressions[op]: Undefined when the lookup finds nothing
expressions(op) ==
    IF op \in ExpressionNames THEN [name |-> op, type |-> definitionType(op)]
    ELSE IF op \in ObjectPrototypeNames THEN [name |-> op, type |-> Undefined]
    ELSE Undefined

(***************************************************************************)
(* Keys: path.join('.') and the template strings that extend a key.  A     *)
(* key is the sequence of its characters.                                  *)
(***************************************************************************)
DigitChars == <<"0", "1", "2", "3", "4", "5", "6", "7", "8", "9">>

RECURSIVE NumberToString(_)
NumberToString(n) ==
    IF n < 10 THEN <<DigitChars[n + 1]>>
    ELSE NumberToString(n \div 10) \o <<DigitChars[(n % 10) + 1]>>

RECURSIVE join(_)
join(path) ==
    IF path = <<>> THEN <<>>
    ELSE IF Len(path) = 1 THEN NumberToString(path[1])
    ELSE NumberToString(path[1]) \o <<".">> \o join(Tail(path))

\* `${key}.${i}`
keyDot(key, i) == key \o <<".">> \o NumberToString(i)

(***************************************************************************)
(* parseExpression (parse.js).                                             *)
(***************************************************************************)
isError(r) == "error" \in DOMAIN r

literalNode(value, type, key) ==
    [literal |-> TRUE, value |-> value, type |-> type, key |-> key]

callNode(name, type, arguments, key, hasMatchInputs, matchInputs) ==
    [literal |-> FALSE, name |-> name, type |-> type, arguments |-> arguments,
     key |-> key, hasMatchInputs |-> hasMatchInputs, matchInputs |-> matchInputs]

errorAt(key, error) == [key |-> key, error |-> error]

\* the key given to the i-th output of a match: parse.js passes path.concat(i)
matchOutputPath(path, i) == Append(path, i)

\* the bound of the loop over label/output pairs: i < expr.length - 2
matchLoopContinues(i, length) == i < length - 2

\* no label group taken for empty
isEmptyInputGroup_Never(inputGroup) == FALSE

\* the check on an empty label group
isEmptyInputGroup(inputGroup) == Len(inputGroup) = 0

\* every parsed label taken for a literal
isLiteralInput_Any(parsedValue) == TRUE

\* the check that a parsed label is a literal
isLiteralInput(parsedValue) == parsedValue.literal

RECURSIVE parseExpression(_, _)
RECURSIVE parseArguments(_, _, _)
RECURSIVE parseInputGroup(_, _, _, _, _)
RECURSIVE parseMatchPairs(_, _, _, _, _)

\* for (const arg of expr.slice(1)) ...: an error, or [args |-> the parsed arguments]
parseArguments(items, path, args) ==
    LET k == 1 + Len(args) IN
    IF k >= Len(items) THEN [args |-> args]
    ELSE LET parsedArg == parseExpression(items[k + 1], Append(path, k)) IN
         IF isError(parsedArg) THEN parsedArg
         ELSE parseArguments(items, path, Append(args, parsedArg))

\* for (let j = 0; j < inputGroup.length; j++) ...
parseInputGroup(inputGroup, path, i, j, parsedInputGroup) ==
    IF j >= Len(inputGroup) THEN [group |-> parsedInputGroup]
    ELSE LET parsedValue == parseExpression(inputGroup[j + 1], path \o <<i, j>>) IN
         IF isError(parsedValue) THEN parsedValue
         ELSE IF ~isLiteralInput(parsedValue)
              THEN errorAt(keyDot(keyDot(join(path), i), j), "NonLiteralMatchInput")
         ELSE parseInputGroup(inputGroup, path, i, j + 1,
                              Append(parsedInputGroup, parsedValue))

\* for (let i = 2; i < expr.length - 2; i += 2) ...
parseMatchPairs(items, path, i, matchInputs, outputExpressions) ==
    IF ~matchLoopContinues(i, Len(items))
    THEN [matchInputs |-> matchInputs, outputExpressions |-> outputExpressions]
    ELSE LET inputGroup == IF items[i + 1].j = "array" THEN items[i + 1].items
                           ELSE <<items[i + 1]>> IN
         IF isEmptyInputGroup(inputGroup)
         THEN errorAt(keyDot(join(path), i), "EmptyMatchGroup")
         ELSE LET parsedInputGroup == parseInputGroup(inputGroup, path, i, 0, <<>>) IN
              IF isError(parsedInputGroup) THEN parsedInputGroup
              ELSE LET out == parseExpression(items[i + 2], matchOutputPath(path, i)) IN
                   IF isError(out) THEN out
                   ELSE parseMatchPairs(items, path, i + 2,
                                        Append(matchInputs, parsedInputGroup.group),
                                        Append(outputExpressions, out))

parseExpression(e, path) ==
    LET key == join(path) IN
    IF e.j = "null" THEN literalNode(e, NullType, key)
    ELSE IF e.j = "string" THEN literalNode(e, StringType, key)
    ELSE IF e.j = "number" THEN literalNode(e, NumberType, key)
    ELSE IF e.j = "boolean" THEN literalNode(e, BooleanType, key)
    ELSE IF e.j # "array" THEN errorAt(key, "ExpectedArray")
    ELSE IF Len(e.items) = 0 \/ e.items[1].j # "string"
         THEN errorAt(keyDot(key, 0), "ExpectedStringOp")
    ELSE
    LET op == e.items[1].s
        definition == expressions(op)
    IN
    IF ~IsDefined(definition) THEN errorAt(key, "UnknownFunction")
    ELSE IF op = "match" THEN
        IF Len(e.items) < 3 THEN errorAt(key, "ArityMismatch")
        ELSE
        LET inputExpression == parseExpression(e.items[2], Append(path, 1)) IN
        IF isError(inputExpression) THEN inputExpression
        ELSE
        LET pairs == parseMatchPairs(e.items, path, 2, <<>>, <<>>) IN
        IF isError(pairs) THEN pairs
        ELSE
        LET otherwise == parseExpression(e.items[Len(e.items)],
                                         Append(path, Len(e.items) - 1)) IN
        IF isError(otherwise) THEN otherwise
        ELSE callNode("match", definition.type,
                      <<inputExpression>> \o Append(pairs.outputExpressions, otherwise),
                      key, TRUE, pairs.matchInputs)
    ELSE
        LET parsedArgs == parseArguments(e.items, path, <<>>) IN
        IF isError(parsedArgs) THEN parsedArgs
        ELSE
        LET type == IF op = "array"
                    THEN lambda(array(T, Len(parsedArgs.args)),
                                <<nargs(Infinity, <<T>>)>>)
                    ELSE definition.type
        IN callNode(op, type, parsedArgs.args, key, FALSE, <<>>)

(***************************************************************************)
(* The type checker (type_check.js).                                       *)
(* A typename map is a function from the typenames to types, Undefined     *)
(* where the JavaScript object has no entry.                               *)
(***************************************************************************)
TypeNames == {"T", "U"}

NoTypenames == [n \in TypeNames |-> Undefined]

\* util.extend(dest, src)
extend(dest, src) == [n \in TypeNames |-> IF IsDefined(src[n]) THEN src[n] ELSE dest[n]]

RECURSIVE isGenericStack(_, _)
RECURSIVE someGeneric(_, _)

someGeneric(types, stack) ==
    \E i \in DOMAIN types : isGenericStack(types[i], stack)

isGenericStack(type, stack) ==
    IF type \in stack THEN FALSE
    ELSE IF type.kind = "typename" THEN TRUE
    ELSE IF type.kind \in {"vector", "array", "any_array"}
         THEN isGenericStack(type.itemType, stack \cup {type})
    ELSE IF type.kind = "variant" THEN someGeneric(members(type), stack \cup {type})
    ELSE IF type.kind = "nargs" THEN someGeneric(type.types, stack \cup {type})
    ELSE IF type.kind = "lambda"
         THEN isGenericStack(type.result, {}) \/ someGeneric(type.params, stack \cup {type})
    ELSE FALSE

\* the same answer taken from the type alone, its parts not visited
isGeneric_Shallow(type) == type.kind = "typename"

isGeneric(type) == isGenericStack(type, {})

\* The assertion on the stack guards against a generic recursive variant; the
\* types here are finite trees over the non-generic ValueType, which is returned
\* by the first test, so it cannot fire.
RECURSIVE resolveTypenamesIfPossible(_, _)
resolveTypenamesIfPossible(type, typenames) ==
    IF ~isGeneric(type) THEN type
    ELSE IF type.kind = "typename"
         THEN IF IsDefined(typenames[type.typename]) THEN typenames[type.typename]
              ELSE type
    ELSE IF type.kind = "vector"
         THEN vector(resolveTypenamesIfPossible(type.itemType, typenames))
    ELSE IF type.kind = "array"
         THEN array(resolveTypenamesIfPossible(type.itemType, typenames), type.N)
    ELSE IF type.kind = "any_array"
         THEN anyArray(resolveTypenamesIfPossible(type.itemType, typenames))
    ELSE IF type.kind = "variant"
         THEN variant([i \in DOMAIN type.members |->
                          resolveTypenamesIfPossible(type.members[i], typenames)])
    ELSE IF type.kind = "nargs"
         THEN nargs(type.N, [i \in DOMAIN type.types |->
                                resolveTypenamesIfPossible(type.types[i], typenames)])
    ELSE lambda(resolveTypenamesIfPossible(type.result, typenames),
                [i \in DOMAIN type.params |->
                    resolveTypenamesIfPossible(type.params[i], typenames)])

\* What match returns: the error (NoError for null, Thrown when it throws
\* instead of returning) and the two maps as it leaves them.
NoError == "null"
Thrown == "Thrown"

matchResult(error, expectedTypenames, tTypenames) ==
    [error |-> error, expectedTypenames |-> expectedTypenames,
     tTypenames |-> tTypenames]

\* the same test passed by the type of null as well
canBind_Null(bound, t) == ~IsDefined(bound) /\ ~isGeneric(t)

\* the test that lets a typename on the expected side take t as its binding
canBind(bound, t) == ~IsDefined(bound) /\ ~isGeneric(t) /\ t # NullType

\* the same test passed by every variant as well
primitiveMatches_OrVariant(expected, t) == t = expected \/ t.kind = "variant"

\* if (expected.kind === 'primitive') { if (t === expected) return null; ... }
primitiveMatches(expected, t) == t = expected

\* the same test never passed
nullMatches_Never(t) == FALSE

\* if (t.name === 'null') return null: NullType is the one type of that name
nullMatches(t) == t = NullType

RECURSIVE match(_, _, _, _)
RECURSIVE matchMembers(_, _, _, _, _)
RECURSIVE someMemberFails(_, _, _, _, _)

\* for (const memberType of expected.members) ...: tried on copies of the
\* maps, merged into them by the first member that matches
matchMembers(expected, i, t, expectedTypenames, tTypenames) ==
    LET tried(r) ==
            IF r.error = Thrown THEN matchResult(Thrown, expectedTypenames, tTypenames)
            ELSE IF r.error = NoError
                 THEN matchResult(NoError,
                                  extend(expectedTypenames, r.expectedTypenames),
                                  extend(tTypenames, r.tTypenames))
            ELSE matchMembers(expected, i + 1, t, expectedTypenames, tTypenames)
    IN
    IF i > Len(members(expected))
    THEN \* no member matched
         IF t.kind = "variant"
         THEN someMemberFails(expected, t, 1, expectedTypenames, tTypenames)
         ELSE matchResult("TypeMismatch", expectedTypenames, tTypenames)
    ELSE tried(match(members(expected)[i], t, expectedTypenames, tTypenames))

\* t.members.some(m => match(expected, m, expectedTypenames, tTypenames))
\*     ? errorMessage : null
someMemberFails(expected, t, i, expectedTypenames, tTypenames) ==
    LET tried(r) ==
            IF r.error = Thrown THEN r
            ELSE IF r.error # NoError
                 THEN matchResult("TypeMismatch", r.expectedTypenames, r.tTypenames)
            ELSE someMemberFails(expected, t, i + 1, r.expectedTypenames, r.tTypenames)
    IN
    IF i > Len(members(t)) THEN matchResult(NoError, expectedTypenames, tTypenames)
    ELSE tried(match(expected, members(t)[i], expectedTypenames, tTypenames))

match(expected, t0, expectedTypenames, tTypenames0) ==
    LET \* the item types compared, and N when both are arrays of a fixed length
        items(t, r) ==
            matchResult(
                IF r.error = Thrown THEN Thrown
                ELSE IF r.error # NoError THEN "TypeMismatch"
                ELSE IF expected.kind = "array" /\ expected.N # t.N THEN "TypeMismatch"
                ELSE NoError,
                r.expectedTypenames, r.tTypenames)
        \* t and tTypenames once a typename t is bound to a concrete expected
        bound(t, tTypenames) ==
            IF nullMatches(t) THEN matchResult(NoError, expectedTypenames, tTypenames)
            ELSE IF expected.kind = "primitive"
            THEN matchResult(IF primitiveMatches(expected, t) THEN NoError
                             ELSE "TypeMismatch",
                             expectedTypenames, tTypenames)
            ELSE IF expected.kind \in {"vector", "any_array", "array"}
            THEN IF t.kind = (IF expected.kind = "vector" THEN "vector" ELSE "array")
                 THEN items(t, match(expected.itemType, t.itemType, expectedTypenames,
                                     tTypenames))
                 ELSE matchResult("TypeMismatch", expectedTypenames, tTypenames)
            ELSE IF expected.kind = "variant"
            THEN IF t = expected THEN matchResult(NoError, expectedTypenames, tTypenames)
                 ELSE matchMembers(expected, 1, t, expectedTypenames, tTypenames)
            ELSE \* throw new Error(`${expected.name} is not a valid output type.`)
                 matchResult(Thrown, expectedTypenames, tTypenames)
        \* if (t.kind === 'typename' && !isGeneric(expected)) { ... t = expected }
        rebound(t1, rebind) ==
            bound(IF rebind THEN expected ELSE t1,
                  IF rebind /\ ~IsDefined(tTypenames0[t1.typename])
                  THEN [tTypenames0 EXCEPT ![t1.typename] = expected]
                  ELSE tTypenames0)
        \* if (t.kind === 'lambda') t = t.result
        unwrapped(t1) ==
            IF ~IsDefined(t1) THEN matchResult(Thrown, expectedTypenames, tTypenames0)
            ELSE IF expected.kind = "typename"
            THEN matchResult(NoError,
                    IF canBind(expectedTypenames[expected.typename], t1)
                    THEN [expectedTypenames EXCEPT ![expected.typename] = t1]
                    ELSE expectedTypenames,
                    tTypenames0)
            ELSE rebound(t1, t1.kind = "typename" /\ ~isGeneric(expected))
    IN
    \* t.kind and expected.name are read first: either throws on undefined
    IF ~IsDefined(t0) \/ ~IsDefined(expected)
    THEN matchResult(Thrown, expectedTypenames, tTypenames0)
    ELSE unwrapped(IF t0.kind = "lambda" THEN t0.result ELSE t0)

(***************************************************************************)
(* typeCheckExpression.  It returns the checked node, or [errors |-> ...], *)
(* or, where the JavaScript throws instead of returning, [thrown |-> ...]. *)
(***************************************************************************)
isErrors(r) == "errors" \in DOMAIN r

isThrown(r) == "thrown" \in DOMAIN r

typeErrors(errors) == [errors |-> errors]

thrown(what) == [thrown |-> what]

\* the same count without the bound param.N
nargsCount_Unbounded(param, argCount, paramCount) ==
    CeilDiv(argCount - (paramCount - 1), Len(param.types))

\* count = Math.min(param.N, Math.ceil((argValues.length -
\*                      (expected.params.length - 1)) / param.types.length))
nargsCount(param, argCount, paramCount) ==
    Min(param.N, CeilDiv(argCount - (paramCount - 1), Len(param.types)))

\* while (count-- > 0) for (const type of param.types) expandedParams.push(type)
RECURSIVE repeatTypes(_, _)
repeatTypes(types, count) ==
    IF count > 0 THEN types \o repeatTypes(types, count - 1) ELSE <<>>

\* for (const param of expected.params) ...
RECURSIVE expandParamsFrom(_, _, _)
expandParamsFrom(params, i, argCount) ==
    IF i > Len(params) THEN <<>>
    ELSE (IF params[i].kind = "nargs"
          THEN repeatTypes(params[i].types, nargsCount(params[i], argCount, Len(params)))
          ELSE <<params[i]>>)
         \o expandParamsFrom(params, i + 1, argCount)

expandParams(params, argCount) == expandParamsFrom(params, 1, argCount)

\* the same test left out: no result type is found unresolved
resultIsUnresolved_Never(resultType) == FALSE

\* the test made on the resolved result type before the arguments are checked
resultIsUnresolved(resultType) == isGeneric(resultType)

\* the same return never taken
returnsEarly_Never(errors) == FALSE

\* if (errors.length) return { errors }: the return taken before the
\* arguments are checked recursively
returnsEarly(errors) == Len(errors) > 0

\* for (let i = 0; i < argValues.length; i++) { match(resolve(param), arg.type,
\* typenames) ... }: the typenames and the errors after the loop
RECURSIVE matchArguments(_, _, _, _, _)
matchArguments(expandedParams, argValues, i, typenames, errors) ==
    LET matched(r) ==
            IF r.error = Thrown
            THEN [typenames |-> typenames, errors |-> errors, thrown |-> TRUE]
            ELSE matchArguments(expandedParams, argValues, i + 1, r.expectedTypenames,
                                IF r.error # NoError
                                THEN Append(errors, errorAt(argValues[i].key, r.error))
                                ELSE errors)
    IN
    IF i > Len(argValues)
    THEN [typenames |-> typenames, errors |-> errors, thrown |-> FALSE]
    ELSE matched(match(resolveTypenamesIfPossible(expandedParams[i], typenames),
                       argValues[i].type, typenames, NoTypenames))

RECURSIVE typeCheckExpression(_, _)
RECURSIVE checkArguments(_, _, _, _, _, _, _)
RECURSIVE checkInputGroup(_, _, _, _, _)
RECURSIVE checkMatchInputs(_, _, _, _, _)

\* for (let i = 0; i < expandedParams.length; i++) { ... typeCheckExpression(
\* expected, arg) ... }
checkArguments(expandedParams, argValues, typenames, i, errors, resolvedParams, checkedArgs) ==
    LET checked(expected, result) ==
            IF isThrown(result)
            THEN [errors |-> errors, resolvedParams |-> resolvedParams,
                  checkedArgs |-> checkedArgs, thrown |-> TRUE]
            ELSE checkArguments(expandedParams, argValues, typenames, i + 1,
                    IF isErrors(result) THEN errors \o result.errors ELSE errors,
                    IF ~isErrors(result) /\ Len(errors) = 0
                    THEN Append(resolvedParams, expected) ELSE resolvedParams,
                    IF ~isErrors(result) /\ Len(errors) = 0
                    THEN Append(checkedArgs, result) ELSE checkedArgs)
        against(expected) ==
            checked(expected, typeCheckExpression(expected, argValues[i]))
    IN
    IF i > Len(expandedParams)
    THEN [errors |-> errors, resolvedParams |-> resolvedParams,
          checkedArgs |-> checkedArgs, thrown |-> FALSE]
    ELSE against(resolveTypenamesIfPossible(expandedParams[i], typenames))

\* for (const inputValue of inputGroup) ...
checkInputGroup(inputType, inputGroup, j, errors, checkedGroup) ==
    LET checked(result) ==
            IF isThrown(result)
            THEN [errors |-> errors, checkedGroup |-> checkedGroup, thrown |-> TRUE]
            ELSE checkInputGroup(inputType, inputGroup, j + 1,
                    IF isErrors(result) THEN errors \o result.errors ELSE errors,
                    IF isErrors(result) THEN checkedGroup
                    ELSE Append(checkedGroup, result))
    IN
    IF j > Len(inputGroup)
    THEN [errors |-> errors, checkedGroup |-> checkedGroup, thrown |-> FALSE]
    ELSE checked(typeCheckExpression(inputType, inputGroup[j]))

\* for (const inputGroup of e.matchInputs) ...
checkMatchInputs(inputType, groups, i, errors, matchInputs) ==
    LET checked(g) ==
            IF g.thrown
            THEN [errors |-> errors, matchInputs |-> matchInputs, thrown |-> TRUE]
            ELSE checkMatchInputs(inputType, groups, i + 1, g.errors,
                                  Append(matchInputs, g.checkedGroup))
    IN
    IF i > Len(groups)
    THEN [errors |-> errors, matchInputs |-> matchInputs, thrown |-> FALSE]
    ELSE checked(checkInputGroup(inputType, groups[i], 1, errors, <<>>))

\* The steps of a call's check are written last step first: each takes what
\* the step before it has computed.
typeCheckExpression(expected0, e) ==
    LET \* a literal: its type against the expected one
        literal(r) ==
            IF r.error = Thrown THEN thrown("match")
            ELSE IF r.error # NoError THEN typeErrors(<<errorAt(e.key, r.error)>>)
            ELSE e
        \* the return: the errors, or the node with its resolved type
        result(resultType, c, mi) ==
            IF mi.thrown THEN thrown("match")
            ELSE IF Len(mi.errors) > 0 THEN typeErrors(mi.errors)
            ELSE callNode(e.name, lambda(resultType, c.resolvedParams), c.checkedArgs,
                          e.key, e.hasMatchInputs, mi.matchInputs)
        \* if (e.matchInputs) ...: the labels against the type of the input
        matchInputs(resultType, c) ==
            IF c.thrown THEN thrown("match")
            ELSE result(resultType, c,
                        IF e.hasMatchInputs
                        THEN checkMatchInputs(IF Len(c.resolvedParams) > 0
                                              THEN c.resolvedParams[1] ELSE Undefined,
                                              e.matchInputs, 1, c.errors, <<>>)
                        ELSE [errors |-> c.errors, matchInputs |-> <<>>,
                              thrown |-> FALSE])
        \* the result type resolved, then the arguments checked recursively
        arguments(expandedParams, m, resultType) ==
            IF resultIsUnresolved(resultType)
            THEN typeErrors(<<errorAt(e.key, "UnresolvedGeneric")>>)
            ELSE IF returnsEarly(m.errors) THEN typeErrors(m.errors)
            ELSE matchInputs(resultType,
                             checkArguments(expandedParams, e.arguments, m.typenames, 1,
                                            m.errors, <<>>, <<>>))
        shallow(expected, expandedParams, m) ==
            IF m.thrown THEN thrown("match")
            ELSE arguments(expandedParams, m,
                           resolveTypenamesIfPossible(expected.result, m.typenames))
        \* the arity check, then the arguments' types matched against the params
        arity(expected, typenames, expandedParams) ==
            IF Len(expandedParams) # Len(e.arguments)
            THEN typeErrors(<<errorAt(e.key, "ArityMismatch")>>)
            ELSE shallow(expected, expandedParams,
                         matchArguments(expandedParams, e.arguments, 1, typenames, <<>>))
        \* the declared result type against the expected one, then the NArgs
        \* params unrolled
        call(expected, r) ==
            IF r.error = Thrown THEN thrown("match")
            ELSE IF r.error # NoError THEN typeErrors(<<errorAt(e.key, r.error)>>)
            ELSE arity(expected,
                       IF expected0.kind # "lambda" THEN r.tTypenames
                       ELSE r.expectedTypenames,
                       expandParams(expected.params, Len(e.arguments)))
    IN
    IF e.literal THEN literal(match(expected0, e.type, NoTypenames, NoTypenames))
    \* expected.kind is read first: it throws on an undefined expected type
    ELSE IF ~IsDefined(expected0) \/ ~IsDefined(e.type) THEN thrown("TypeError")
    ELSE call(IF expected0.kind # "lambda" THEN e.type ELSE expected0,
              match(IF expected0.kind # "lambda" THEN expected0 ELSE expected0.result,
                    e.type.result, NoTypenames, NoTypenames))

\* the tree the call leaves behind where e was, had the resolved node been
\* written over it
inputAfterCheck_InPlace(e, result) == IF "literal" \in DOMAIN result THEN result ELSE e

\* the tree e after typeCheckExpression(expected, e) has returned: no statement
\* of the function assigns to e, to a field of e or to a type; the arrays and
\* maps it writes (typenames, errors, expandedParams, resolvedParams,
\* checkedArgs, matchInputs) are created by the call, and the node returned
\* for a call is the object literal ret
inputAfterCheck(e, result) == e

RECURSIVE serializeExpression(_, _)

\* e.name + (withTypes ? `: ${...}` : ''): the name, with the result type it
\* is annotated with when types are asked for
serializedName(e, withTypes) ==
    IF withTypes
    THEN [j |-> "string", s |-> e.name,
          annotation |-> IF e.type.kind = "lambda" THEN e.type.result ELSE e.type]
    ELSE JStr(e.name)

\* serializeExpression(e, withTypes): the value of a literal; for a call the
\* array of its name and of its serialized arguments
serializeExpression(e, withTypes) ==
    IF e.literal THEN e.value
    ELSE JArr(<<serializedName(e, withTypes)>> \o
              [i \in DOMAIN e.arguments |-> serializeExpression(e.arguments[i], withTypes)])

(***************************************************************************)
(* compile (compile.js) and the compile rules of the registry              *)
(* (expressions.js).  A rule is modelled with the parameters its           *)
(* definition declares: args, the compiled arguments, and e, the call.     *)
(* The generated JavaScript source is kept as a term: the rule's name and  *)
(* the sub-terms its template embeds.                                      *)
(***************************************************************************)
\* String(v) for a literal value with a one-digit number
String(v) ==
    CASE v.j = "null" -> "null"
      [] v.j = "number" -> DigitChars[v.n + 1]
      [] v.j = "string" -> v.s
      [] v.j = "boolean" -> IF v.b THEN "true" ELSE "false"

titlecase(s) ==
    CASE s = "null" -> "Null"
      [] s = "number" -> "Number"
      [] s = "string" -> "String"
      [] s = "boolean" -> "Boolean"
      [] s = "object" -> "Object"
      [] s = "color" -> "Color"
      [] s = "undefined" -> "Undefined"
      [] OTHER -> s

compileSuccess(js, type, isFeatureConstant, isZoomConstant, expression) ==
    [result |-> "success", js |-> js, type |-> type,
     isFeatureConstant |-> isFeatureConstant, isZoomConstant |-> isZoomConstant,
     expression |-> expression]

compileErrors(errors) == [result |-> "error", errors |-> errors]

\* what a compile rule returns: js and the flags it sets (<<b>> for a boolean b,
\* NoFlag when the rule leaves the flag out), or the error messages
NoFlag == <<>>

setFlag(b) == <<b>>

ruleJs(js, isFeatureConstant, isZoomConstant) ==
    [js |-> js, isFeatureConstant |-> isFeatureConstant,
     isZoomConstant |-> isZoomConstant]

ruleErrors(errors) == [errors |-> errors]

jsOf(args) == [i \in DOMAIN args |-> args[i].js]

\* `this.get(${args.length > 1 ? args[1].js : 'props'}, ${args[0].js}, ...)`,
\* isFeatureConstant: args.length > 1 && args[1].isFeatureConstant
compilePropertyAccess(name, args) ==
    ruleJs([name |-> name,
            obj |-> IF Len(args) > 1 THEN args[2].js ELSE [name |-> "props"],
            key |-> args[1].js,
            objName |-> IF Len(args) > 1 THEN "undefined" ELSE "feature.properties"],
           setFlag(Len(args) > 1 /\ args[2].isFeatureConstant),
           NoFlag)

\* the inputMap of a match: its entries in the order they are written, a later
\* entry for the same key replacing an earlier one
RECURSIVE inputMapOf(_, _)
inputMapOf(inputs, i) ==
    IF i > Len(inputs) THEN <<>>
    ELSE [j \in DOMAIN inputs[i] |->
             [key |-> <<titlecase(inputs[i][j].type.name), String(inputs[i][j].value)>>,
              index |-> i - 1]]
         \o inputMapOf(inputs, i + 1)

compileMatch(args, e) ==
    IF ~e.hasMatchInputs THEN thrown("Missing match input values")
    ELSE IF Len(args) # Len(e.matchInputs) + 2 THEN ruleErrors(<<"ArityMismatch">>)
    ELSE ruleJs([name |-> "match",
                 input |-> args[1].js,
                 outputs |-> jsOf(Tail(args)),
                 inputMap |-> inputMapOf(e.matchInputs, 1)],
                NoFlag, NoFlag)

\* the test on two successive stop inputs: stops[stops.length - 1] > input.value
stopsOutOfOrder(previous, input) == previous > input

\* for (let i = 2; (i + 1) < args.length; i += 2) ...: an error, or the stops
\* and the outputs
RECURSIVE curveStops(_, _, _, _)
curveStops(args, i, stops, outputs) ==
    IF ~(i + 1 < Len(args)) THEN [stops |-> stops, outputs |-> outputs]
    ELSE LET input == args[i + 1].expression
             out == args[i + 2]
         IN
         IF ~input.literal \/ input.value.j # "number"
         THEN ruleErrors(<<"NonNumericCurveStop">>)
         ELSE IF Len(stops) > 0 /\ stopsOutOfOrder(stops[Len(stops)], input.value.n)
         THEN ruleErrors(<<"NonAscendingCurveStops">>)
         ELSE curveStops(args, i + 2, Append(stops, input.value.n),
                         Append(outputs, out.js))

compileCurve(args) ==
    \* args[0].expression and args[3].type are read without a test
    IF Len(args) < 1 THEN thrown("TypeError")
    ELSE
    LET interpolation == args[1].expression IN
    IF interpolation.literal THEN thrown("Invalid interpolation type")
    ELSE IF Len(args) < 4 THEN thrown("TypeError")
    ELSE
    LET outputType == args[4].type
        resultType ==
            IF outputType = NumberType THEN "number"
            ELSE IF outputType = ColorType THEN "color"
            ELSE IF outputType.kind = "array" /\ outputType.itemType = NumberType
                 THEN "array"
            ELSE "undefined"
    IN
    IF resultType = "undefined" /\ interpolation.name # "step"
    THEN ruleErrors(<<"NonInterpolatableCurveOutput">>)
    ELSE
    LET s == curveStops(args, 2, <<>>, <<>>) IN
    IF "errors" \in DOMAIN s THEN s
    ELSE IF interpolation.name = "exponential"
            /\ (~interpolation.arguments[1].literal
                \/ interpolation.arguments[1].value.j # "number")
    THEN ruleErrors(<<"NonLiteralExponentialBase">>)
    ELSE ruleJs([name |-> "curve",
                 input |-> args[2].js,
                 stopInputs |-> s.stops,
                 stopOutputs |-> s.outputs,
                 interpolation |->
                     [name |-> interpolation.name,
                      base |-> IF interpolation.name = "exponential"
                               THEN interpolation.arguments[1].value.n ELSE 1],
                 resultType |-> resultType],
                NoFlag, NoFlag)

\* the rules that read args[0] (and args[1]) by position, and how many they read
PositionalArity(name) ==
    CASE name \in {"string", "number", "boolean", "json_array", "object",
                   "color_to_array", "!", "upcase", "downcase", "length",
                   "get", "has"} -> 1
      [] name \in ComparisonOps \cup {"^"} -> 2
      [] OTHER -> 0

\* expressions[e.name].compile(args, e)
definitionCompile(name, args, e) ==
    CASE Len(args) < PositionalArity(name) -> thrown("TypeError")
      [] name \in {"get", "has"} -> compilePropertyAccess(name, args)
      [] name \in {"properties", "geometry_type", "id"} ->
            ruleJs([name |-> name], setFlag(FALSE), NoFlag)
      [] name = "zoom" -> ruleJs([name |-> name], NoFlag, setFlag(FALSE))
      [] name = "match" -> compileMatch(args, e)
      [] name = "curve" -> compileCurve(args)
      [] name \in {"array", "vector"} ->
            ruleJs([name |-> name, type |-> e.type.result, args |-> jsOf(args)],
                   NoFlag, NoFlag)
      [] name = "length" ->
            LET t == IF args[1].type.kind = "lambda" THEN args[1].type.result
                     ELSE args[1].type IN
            IF t.kind \notin {"vector", "primitive"} THEN thrown("AssertionError")
            ELSE ruleJs([name |-> name, args |-> jsOf(SubSeq(args, 1, 1)),
                         ofVector |-> t.kind = "vector"], NoFlag, NoFlag)
      [] name = "case" ->
            \* assert(args.length === 1) once the pairs are taken off
            IF Len(args) % 2 # 1 THEN thrown("AssertionError")
            ELSE ruleJs([name |-> name, args |-> jsOf(args)], NoFlag, NoFlag)
      [] name \in {"step", "linear", "exponential"} ->
            ruleJs([name |-> "void 0"], NoFlag, NoFlag)
      [] PositionalArity(name) > 0 ->
            ruleJs([name |-> name, args |-> jsOf(SubSeq(args, 1, PositionalArity(name)))],
                   NoFlag, NoFlag)
      [] OTHER -> ruleJs([name |-> name, args |-> jsOf(args)], NoFlag, NoFlag)

\* the flag a rule sets left unread
conjoin_ArgumentsOnly(flag, ruleFlag) == flag

\* if (typeof compiled.isFeatureConstant === 'boolean') flag = flag && ...
conjoin(flag, ruleFlag) == IF Len(ruleFlag) = 1 THEN flag /\ ruleFlag[1] ELSE flag

\* compiledArgs.reduce((memo, arg) => memo && arg.isFeatureConstant, true), and
\* the same for isZoomConstant
allFeatureConstant(compiledArgs) ==
    \A i \in DOMAIN compiledArgs : compiledArgs[i].isFeatureConstant

allZoomConstant(compiledArgs) ==
    \A i \in DOMAIN compiledArgs : compiledArgs[i].isZoomConstant

\* assert(compiled.js): the source a rule returns is the empty string when it
\* joins no arguments with an operator
jsIsEmpty(js) ==
    js.name \in {"+", "*", "-", "/", "%", "&&", "||"} /\ Len(js.args) = 0

RECURSIVE compile(_, _)
RECURSIVE compileArguments(_, _, _, _)

\* for (let i = 0; i < e.arguments.length; i++) ...
compileArguments(e, i, errors, compiledArgs) ==
    IF i > Len(e.arguments)
    THEN [errors |-> errors, compiledArgs |-> compiledArgs, thrown |-> FALSE]
    ELSE LET compiledArg == compile(IF i <= Len(e.type.params) THEN e.type.params[i]
                                    ELSE Undefined, e.arguments[i]) IN
         IF isThrown(compiledArg)
         THEN [errors |-> errors, compiledArgs |-> compiledArgs, thrown |-> TRUE,
               what |-> compiledArg]
         ELSE IF compiledArg.result = "error"
         THEN compileArguments(e, i + 1, errors \o compiledArg.errors, compiledArgs)
         ELSE compileArguments(e, i + 1, errors, Append(compiledArgs, compiledArg))

compile(expected, e) ==
    IF e.literal
    THEN compileSuccess([name |-> "literal", value |-> e.value], e.type, TRUE, TRUE, e)
    ELSE
    LET a == compileArguments(e, 1, <<>>, <<>>) IN
    IF a.thrown THEN a.what
    ELSE IF Len(a.errors) > 0 THEN compileErrors(a.errors)
    ELSE
    \* definition.compile(e, compiledArgs): the call names the node first, the
    \* rules declare (args, e); each rule is given here what it declares
    LET rule == definitionCompile(e.name, a.compiledArgs, e) IN
    IF isThrown(rule) THEN rule
    ELSE IF "errors" \in DOMAIN rule
    THEN compileErrors([i \in DOMAIN rule.errors |-> errorAt(e.key, rule.errors[i])])
    ELSE IF jsIsEmpty(rule.js) THEN thrown("AssertionError")
    ELSE compileSuccess(rule.js, e.type.result,
                        conjoin(allFeatureConstant(a.compiledArgs), rule.isFeatureConstant),
                        conjoin(allZoomConstant(a.compiledArgs), rule.isZoomConstant),
                        e)

(***************************************************************************)
(* Evaluation: the function compileExpression builds around the generated  *)
(* source, and the evaluation context (evaluation_context.js) the source   *)
(* calls into.  A run-time value is a JSON primitive, undefined, or a      *)
(* tagged object {type, value} / {type, items}; a raw JavaScript object is *)
(* JObj(o) with o a function from its own property names to raw values.    *)
(* An evaluation returns [value |-> v] or, when it throws, [error |-> e].  *)
(***************************************************************************)
JUndefined == [j |-> "undefined"]

\* a number that is not an integer literal of the model: NaN
JNaN == [j |-> "number", nan |-> TRUE]

\* the result of an operation the model does not interpret: a term over the
\* operation and its operands, of the given typeof
Sym(kind, name, args) == [j |-> kind, sym |-> name, of |-> args]

returned(v) == [value |-> v]

raised(e) == [error |-> e]

threw(r) == "error" \in DOMAIN r

Tag(name) == [tag |-> name]

isTagged(x) == "type" \in DOMAIN x

isInt(x) == "n" \in DOMAIN x

\* this.object(value), this.vector(type, items), this.array(type, items)
object(value) == [type |-> Tag("Object"), value |-> value]

taggedItems(type, items) == [type |-> type, items |-> items]

\* JavaScript's ToBoolean
truthy(x) ==
    IF isTagged(x) THEN TRUE
    ELSE CASE x.j \in {"null", "undefined"} -> FALSE
           [] x.j = "boolean" -> IF "b" \in DOMAIN x THEN x.b ELSE TRUE
           [] x.j = "number" -> IF isInt(x) THEN x.n # 0 ELSE "nan" \notin DOMAIN x
           [] x.j = "string" -> IF "s" \in DOMAIN x THEN x.s # "" ELSE TRUE
           [] OTHER -> TRUE

\* typeOf: 'Null', the tag of an object, or the titlecased typeof
typeOf(x) ==
    IF x = JNull THEN Tag("Null")
    ELSE IF isTagged(x) THEN x.type
    ELSE IF x.j \in {"object", "array"} THEN Tag("undefined")
    ELSE Tag(titlecase(x.j))

\* this.as(value, expectedType, name)
as(value, expectedTag) ==
    IF typeOf(value) = expectedTag THEN returned(value) ELSE raised("TypeAssertion")

\* the property name a value is converted to
propertyKey(key) ==
    IF key.j = "string" /\ "s" \in DOMAIN key THEN key.s
    ELSE IF key.j \in {"null", "boolean"} \/ (isInt(key) /\ key.n \in 0..9)
         THEN String(key)
    ELSE "[computed]"

\* this.has(obj, key, name)
has(obj, key) ==
    IF ~truthy(obj) THEN raised("NullObject")
    ELSE IF threw(as(obj, Tag("Object"))) THEN raised("TypeAssertion")
    ELSE IF obj.value.j # "object" THEN raised("TypeError")
    ELSE returned(JBool(propertyKey(key) \in DOMAIN obj.value.o))

\* this.get(obj, key, name)
get(obj, key) ==
    LET h == has(obj, key) IN
    IF threw(h) THEN h
    ELSE IF ~h.value.b THEN raised("PropertyNotFound")
    ELSE LET val == obj.value.o[propertyKey(key)] IN
         IF val.j = "array" THEN returned(taggedItems(Tag("Vector<Value>"), val.items))
         ELSE IF val.j = "object" THEN returned(object(val))
         ELSE returned(val)

\* this.at(index, arrayOrVector)
at(index, arrayOrVector) ==
    IF ~isTagged(arrayOrVector) \/ "items" \notin DOMAIN arrayOrVector
    THEN raised("TypeError")
    ELSE IF ~isInt(index)
    THEN IF index = JNull /\ Len(arrayOrVector.items) > 0
         THEN returned(JUndefined) ELSE raised("IndexOutOfBounds")
    ELSE IF ~(index.n < Len(arrayOrVector.items)) THEN raised("IndexOutOfBounds")
    ELSE IF index.n < 0 THEN returned(JUndefined)
    ELSE returned(arrayOrVector.items[index.n + 1])

\* the value of a numeric operand: null counts as 0, a non-number gives NaN
isNumeric(x) == x = JNull \/ (~isTagged(x) /\ x.j = "number" /\ isInt(x))

numberOf(x) == IF x = JNull THEN 0 ELSE x.n

arithmetic(name, a, b) ==
    IF ~(isNumeric(a) /\ isNumeric(b)) THEN JNaN
    ELSE CASE name = "+" -> JNum(numberOf(a) + numberOf(b))
           [] name = "-" -> JNum(numberOf(a) - numberOf(b))
           [] name = "*" -> JNum(numberOf(a) * numberOf(b))

RECURSIVE foldArithmetic(_, _, _, _)
foldArithmetic(name, values, i, acc) ==
    IF i > Len(values) THEN acc
    ELSE foldArithmetic(name, values, i + 1, arithmetic(name, acc, values[i]))

\* a === b and a < b on what the model interprets
strictEquals(a, b) ==
    \* two objects are equal when they are the same object: the one props
    \* object is, an object made by get, array or vector never is
    IF isTagged(a) \/ isTagged(b)
    THEN isTagged(a) /\ isTagged(b) /\ "ref" \in DOMAIN a /\ a = b
    ELSE IF a.j # b.j THEN FALSE
    ELSE IF "nan" \in DOMAIN a \/ "nan" \in DOMAIN b THEN FALSE
    ELSE a = b

lessThan(a, b) == isNumeric(a) /\ isNumeric(b) /\ numberOf(a) < numberOf(b)

comparison(name, a, b) ==
    CASE name = "==" -> strictEquals(a, b)
      [] name = "!=" -> ~strictEquals(a, b)
      [] name = "<" -> lessThan(a, b)
      [] name = ">" -> lessThan(b, a)
      [] name = "<=" -> lessThan(a, b) \/ (isNumeric(a) /\ isNumeric(b) /\ numberOf(a) = numberOf(b))
      [] name = ">=" -> lessThan(b, a) \/ (isNumeric(a) /\ isNumeric(b) /\ numberOf(a) = numberOf(b))

\* the string a value is converted to when it is appended to one
stringKey(x) ==
    IF isTagged(x) THEN [str |-> "[object Object]"]
    ELSE IF x.j = "string" /\ "s" \in DOMAIN x THEN [str |-> x.s]
    ELSE IF x.j \in {"null", "boolean"} /\ ("b" \in DOMAIN x \/ x.j = "null")
         THEN [str |-> String(x)]
    ELSE IF isInt(x) /\ x.n \in 0..9 THEN [str |-> String(x)]
    ELSE [other |-> x]

\* the same key without the type of the input
matchKey_ValueOnly(input) ==
    LET k == stringKey(input) IN
    <<"String", IF "str" \in DOMAIN k THEN k.str ELSE "[computed]">>

\* this.typeOf(input) + '-' + input
matchKey(input) ==
    LET k == stringKey(input) IN
    <<typeOf(input).tag, IF "str" \in DOMAIN k THEN k.str ELSE "[computed]">>

\* inputMap[key]: the index of the last entry written under the key
RECURSIVE lookup(_, _, _)
lookup(inputMap, key, i) ==
    IF i = 0 THEN -1
    ELSE IF inputMap[i].key = key THEN inputMap[i].index
    ELSE lookup(inputMap, key, i - 1)

\* the thunk the function generated for a match calls, as a position in
\* outputs: outputs[outputIndex] when typeof outputIndex === 'number', the
\* last one otherwise
selectedOutput(js, input) ==
    LET chosen(outputIndex) ==
            IF outputIndex >= 0 THEN outputIndex + 1 ELSE Len(js.outputs)
    IN chosen(lookup(js.inputMap, matchKey(input), Len(js.inputMap)))

\* the same test passed by an input equal to the stop only
searchComplete_EqualOnly(input, currentValue, hasUpper, upperValue) == input = currentValue

\* input === currentValue || input > currentValue && input < upperValue,
\* upperValue being undefined past the last stop
searchComplete(input, currentValue, hasUpper, upperValue) ==
    input = currentValue \/ (input > currentValue /\ hasUpper /\ input < upperValue)

\* findStopLessThanOrEqualTo(stops, input)
RECURSIVE binarySearch(_, _, _, _, _)
binarySearch(stops, input, lowerIndex, upperIndex, currentIndex) ==
    IF ~(lowerIndex <= upperIndex) THEN Max(currentIndex - 1, 0)
    ELSE LET current == (lowerIndex + upperIndex) \div 2
             currentValue == stops[current + 1]
         IN
         IF searchComplete(input, currentValue, current + 2 <= Len(stops),
                           IF current + 2 <= Len(stops) THEN stops[current + 2] ELSE 0)
         THEN current
         ELSE IF currentValue < input
         THEN binarySearch(stops, input, current + 1, upperIndex, current)
         ELSE binarySearch(stops, input, lowerIndex, current - 1, current)

findStopLessThanOrEqualTo(stops, input) ==
    binarySearch(stops, input, 0, Len(stops) - 1, 0)

RECURSIVE evaluate(_, _)
RECURSIVE evaluateAll(_, _, _, _)
RECURSIVE evaluateLogical(_, _, _, _)
RECURSIVE evaluateCase(_, _, _)
RECURSIVE coalesceFrom(_, _, _)
RECURSIVE evaluateCurve(_, _, _)

\* the operands of a strict operator, left to right: the values, or the first
\* exception
evaluateAll(terms, env, i, values) ==
    IF i > Len(terms) THEN returned(values)
    ELSE LET r == evaluate(terms[i], env) IN
         IF threw(r) THEN r ELSE evaluateAll(terms, env, i + 1, Append(values, r.value))

\* a && b && ... and a || b || ...
evaluateLogical(name, terms, env, i) ==
    LET r == evaluate(terms[i], env) IN
    IF threw(r) \/ i = Len(terms) THEN r
    ELSE IF (name = "&&") = truthy(r.value) THEN evaluateLogical(name, terms, env, i + 1)
    ELSE r

\* c1 ? v1 : c2 ? v2 : ... : otherwise
evaluateCase(terms, env, i) ==
    IF i = Len(terms) THEN evaluate(terms[i], env)
    ELSE LET c == evaluate(terms[i], env) IN
         IF threw(c) THEN c
         ELSE IF truthy(c.value) THEN evaluate(terms[i + 1], env)
         ELSE evaluateCase(terms, env, i + 2)

\* the same test never passed: no exception of a thunk leaves the loop
rethrows_Never(thunks) == FALSE

\* catch (e) { if (thunks.length === 0) throw e; }, on the thunks left after
\* the shift
rethrows(thunks) == Len(thunks) = 0

\* the loop of coalesce on the thunks not yet shifted, after `invoked` thunks
\* were shifted and called: what the loop gives and how many thunks it called
coalesceFrom(thunks, env, invoked) ==
    IF Len(thunks) = 0 THEN [result |-> returned(JNull), invoked |-> invoked]
    ELSE LET step(result) ==
                 IF threw(result)
                 THEN IF rethrows(Tail(thunks))
                      THEN [result |-> result, invoked |-> invoked + 1]
                      ELSE coalesceFrom(Tail(thunks), env, invoked + 1)
                 ELSE IF result.value # JNull
                 THEN [result |-> result, invoked |-> invoked + 1]
                 ELSE coalesceFrom(Tail(thunks), env, invoked + 1)
         IN step(evaluate(Head(thunks), env))

\* coalesce(...thunks)
coalesce(thunks, env) == coalesceFrom(thunks, env, 0).result

\* evaluateCurve(input, stopInputs, stopOutputs, interpolation, resultType)
evaluateCurve(js, input0, env) ==
    LET input == as(input0, Tag("Number"))
        stopCount == Len(js.stopInputs)
    IN
    IF threw(input) THEN input
    ELSE IF stopCount = 0 THEN raised("TypeError")
    ELSE IF stopCount = 1 THEN evaluate(js.stopOutputs[1], env)
    ELSE IF ~isInt(input0) THEN returned(Sym("number", "curve", <<input0, js>>))
    ELSE IF input0.n <= js.stopInputs[1] THEN evaluate(js.stopOutputs[1], env)
    ELSE IF input0.n >= js.stopInputs[stopCount]
         THEN evaluate(js.stopOutputs[stopCount], env)
    ELSE
    LET index == findStopLessThanOrEqualTo(js.stopInputs, input0.n) IN
    IF js.interpolation.name = "step" THEN evaluate(js.stopOutputs[index + 1], env)
    ELSE
    LET outputLower == evaluate(js.stopOutputs[index + 1], env)
        outputUpper == IF index + 2 <= stopCount
                       THEN evaluate(js.stopOutputs[index + 2], env)
                       ELSE raised("TypeError")
    IN
    IF threw(outputLower) THEN outputLower
    ELSE IF threw(outputUpper) THEN outputUpper
    ELSE IF js.resultType \in {"color", "array"}
            /\ (~isTagged(outputLower.value) \/ ~isTagged(outputUpper.value))
    THEN raised("TypeError")
    ELSE returned(Sym(js.resultType, "interpolate",
                      <<outputLower.value, outputUpper.value, input0.n,
                        js.interpolation.base, js.stopInputs[index + 1],
                        js.stopInputs[index + 2]>>))

evaluate(js, env) ==
    CASE js.name = "literal" -> returned(js.value)
      [] js.name = "props" -> returned(env.props)
      [] js.name = "void 0" -> returned(JUndefined)
      [] js.name = "zoom" ->
            returned(IF "zoom" \in DOMAIN env.mapProperties
                     THEN env.mapProperties.zoom ELSE JUndefined)
      [] js.name = "properties" -> as(env.props, Tag("Object"))
      [] js.name = "id" -> get(env.feature, JStr("id"))
      [] js.name = "geometry_type" ->
            LET g == get(env.feature, JStr("geometry")) IN
            IF threw(g) THEN g ELSE get(g.value, JStr("type"))
      [] js.name \in {"get", "has"} ->
            LET obj == evaluate(js.obj, env) IN
            IF threw(obj) THEN obj
            ELSE LET key == evaluate(js.key, env) IN
                 IF threw(key) THEN key
                 ELSE IF js.name = "get" THEN get(obj.value, key.value)
                 ELSE has(obj.value, key.value)
      [] js.name \in {"&&", "||"} -> evaluateLogical(js.name, js.args, env, 1)
      [] js.name = "case" -> evaluateCase(js.args, env, 1)
      [] js.name = "coalesce" -> coalesce(js.args, env)
      [] js.name = "match" ->
            LET input == evaluate(js.input, env) IN
            IF threw(input) THEN input
            ELSE evaluate(js.outputs[selectedOutput(js, input.value)], env)
      [] js.name = "curve" ->
            LET input == evaluate(js.input, env) IN
            IF threw(input) THEN input ELSE evaluateCurve(js, input.value, env)
      [] OTHER ->
            LET a == evaluateAll(js.args, env, 1, <<>>) IN
            IF threw(a) THEN a
            ELSE LET v == a.value IN
            CASE js.name \in {"+", "-", "*"} ->
                    returned(foldArithmetic(js.name, v, 2, v[1]))
              [] js.name \in ComparisonOps -> returned(JBool(comparison(js.name, v[1], v[2])))
              [] js.name = "!" -> returned(JBool(~truthy(v[1])))
              [] js.name = "boolean" -> returned(JBool(truthy(v[1])))
              [] js.name = "typeof" ->
                    LET x == IF Len(v) > 0 THEN v[1] ELSE JUndefined IN
                    returned(IF "of" \in DOMAIN typeOf(x)
                             THEN [j |-> "string", tagOf |-> typeOf(x)]
                             ELSE JStr(typeOf(x).tag))
              [] js.name = "number" ->
                    returned(IF isNumeric(v[1]) THEN JNum(numberOf(v[1]))
                             ELSE Sym("number", "Number", v))
              [] js.name = "json_array" -> as(v[1], Tag("Vector<Value>"))
              [] js.name = "object" -> as(v[1], Tag("Object"))
              [] js.name \in {"array", "vector"} ->
                    returned(taggedItems([tag |-> js.name, of |-> js.type], v))
              [] js.name = "at" ->
                    at(IF Len(v) > 0 THEN v[1] ELSE JUndefined,
                       IF Len(v) > 1 THEN v[2] ELSE JUndefined)
              [] js.name = "length" ->
                    IF js.ofVector
                    THEN IF isTagged(v[1]) /\ "items" \in DOMAIN v[1]
                         THEN returned(JNum(Len(v[1].items))) ELSE raised("TypeError")
                    ELSE IF v[1] \in {JNull, JUndefined} THEN raised("TypeError")
                    ELSE IF isTagged(v[1]) \/ v[1].j # "string" THEN returned(JUndefined)
                    ELSE returned(Sym("number", "length", v))
              [] js.name \in {"upcase", "downcase"} ->
                    IF v[1] \in {JNull, JUndefined} THEN raised("TypeError")
                    ELSE returned(Sym("string", js.name, v))
              [] js.name = "color" ->
                    IF Len(v) = 0 \/ v[1] = JNull THEN raised("ColorParse")
                    ELSE returned([type |-> Tag("Color"), value |-> Sym("color", "parseColor", v)])
              [] js.name \in {"rgb", "rgba"} ->
                    returned([type |-> Tag("Color"), value |-> Sym("color", "rgba", v)])
              [] js.name = "color_to_array" ->
                    IF v[1] \in {JNull, JUndefined} THEN raised("TypeError")
                    ELSE returned(taggedItems(Tag("Array<Number, 4>"),
                                              IF isTagged(v[1]) /\ "value" \in DOMAIN v[1]
                                              THEN v[1].value ELSE JUndefined))
              [] js.name \in {"string", "concat"} -> returned(Sym("string", js.name, v))
              [] OTHER -> returned(Sym("number", js.name, v))

\* this.unwrap(maybeWrapped)
unwrap(maybeWrapped) ==
    IF ~isTagged(maybeWrapped)
    THEN IF maybeWrapped.j \in {"object", "array"} THEN raised("UnknownRuntimeType")
         ELSE returned(maybeWrapped)
    ELSE IF maybeWrapped.type \in {Tag("Color"), Tag("Object")}
         THEN returned(maybeWrapped.value)
    ELSE IF "items" \in DOMAIN maybeWrapped THEN returned(maybeWrapped.items)
    ELSE raised("UnknownRuntimeType")

\* what the function built around the source prepares from its arguments
\* before the source runs: mapProperties, feature and props
evaluationContext(mapProps, feat) ==
    LET mp == IF truthy(mapProps) THEN mapProps.o ELSE <<>>
        f == IF feat.j = "object" THEN object(feat) ELSE feat
        p == IF isTagged(f) /\ "properties" \in DOMAIN f.value.o
             THEN IF f.value.o.properties.j \in {"object", "null"}
                  THEN object(f.value.o.properties)
                  ELSE f.value.o.properties
             ELSE JUndefined
        q == IF truthy(p) THEN p ELSE object(JObj(<<>>))
        props == IF isTagged(q) THEN [type |-> q.type, value |-> q.value, ref |-> "props"]
                 ELSE q
    IN [mapProperties |-> mp, feature |-> f, props |-> props]

\* the function built around the source: its arguments are prepared, the
\* source is evaluated and the result unwrapped
callFunction(js, mapProps, feat) ==
    LET unwrapped(r) == IF threw(r) THEN r ELSE unwrap(r.value)
    IN unwrapped(evaluate(js, evaluationContext(mapProps, feat)))

(***************************************************************************)
(* The inputs the state machine draws from: calls of a few definitions on  *)
(* arguments of a small alphabet, match arrays, curve arrays, and a few    *)
(* values that are no call at all.                                         *)
(***************************************************************************)
Call0(op) == JArr(<<JStr(op)>>)

Call1(op, a) == JArr(<<JStr(op), a>>)

Call2(op, a, b) == JArr(<<JStr(op), a, b>>)

\* sequences over S of length 0..n
SeqsUpTo(S, n) == UNION {[1..k -> S] : k \in 0..n}

ArgumentAlphabet ==
    {JNull, JNum(1), JStr("a"), JBool(TRUE),
     Call0("zoom"), Call1("get", JStr("a")), Call1("+", JStr("a"))}

CallOps == {"+", "==", "!", "get", "coalesce", "case", "length", "vector"}

CallInputs ==
    {JArr(<<JStr(op)>> \o args) : op \in CallOps, args \in SeqsUpTo(ArgumentAlphabet, MaxArgs)}

\* values that are not a call of a definition
OtherInputs ==
    {JNull, JNum(1), JStr("a"), JBool(TRUE), JObj([a |-> JNum(1)]), JArr(<<>>),
     JArr(<<JNum(1)>>), Call0("nofn"), Call0("properties"), Call0("id"),
     Call0("geometry_type"), Call0("zoom"), Call0("pi"), Call0("constructor"),
     Call0("toString"), Call0("-"), Call1("-", JNum(1)),
     Call2("-", Call0("zoom"), JNum(1)),
     Call2("has", JStr("a"), Call0("properties")),
     Call2("&&", JBool(TRUE), Call2("has", JStr("o"), Call0("properties"))),
     Call2("at", JNum(1), Call2("vector", JNum(1), Call0("zoom"))),
     Call1("typeof", Call1("get", JStr("a"))),
     Call2("+", Call0("nofn"), Call0("nofn")),
     Call2("+", Call1("+", Call0("nofn")), JStr("a")),
     Call2("==", Call0("properties"), Call0("properties")),
     Call2("get", JStr("a"), Call0("properties")),
     Call1("string", Call1("get", JStr("a"))),
     Call1("coalesce", Call1("coalesce", JNum(1))),
     Call1("coalesce", Call1("coalesce", JStr("a"))),
     Call2("coalesce", Call1("coalesce", JNum(1)), JNum(1)),
     Call2("coalesce", JNull, Call1("coalesce", JNum(1))),
     Call1("+", Call2("case", JBool(TRUE), JNum(1))),
     Call1("+", Call1("case", JNum(1))),
     Call2("get", JStr("a"), Call0("properties")),
     Call2("has", JStr("a"), Call1("object", Call1("get", JStr("o")))),
     Call2("get", JStr("a"), Call1("object", JNull)),
     JArr(<<JStr("case"), JBool(TRUE), JNum(1), Call0("zoom")>>),
     JArr(<<JStr("case"), JBool(FALSE), Call1("length", Call0("geometry_type")), JNum(1)>>),
     JArr(<<JStr("curve"), Call0("linear"), Call0("zoom"), JNum(0), JNull, JNum(1), JNum(5)>>),
     JArr(<<JStr("coalesce"), Call1("get", JStr("a")), Call1("get", JStr("b")),
            JStr("none")>>),
     Call2("get", JStr("a"),
           Call1("object", Call2("get", JStr("o"), Call0("properties"))))}

MatchAlphabet ==
    {JNum(1), JStr("a"), JArr(<<>>), Call1("get", JStr("x")), JArr(<<Call0("zoom")>>)}

MatchInputExpressions == {Call0("zoom"), Call1("get", JStr("a"))}

MatchInputs ==
    {JArr(<<JStr("match"), input>> \o rest) :
        input \in MatchInputExpressions,
        rest \in SeqsUpTo(MatchAlphabet, MaxMatchLen - 2)}

\* matches of a property with two groups of labels
TwoGroupLabels == {JNum(1), JStr("1"), JStr("a"), JArr(<<JNum(1), JStr("a")>>)}

TwoGroupMatches ==
    {JArr(<<JStr("match"), Call1("get", JStr("a")), l1, o1, l2, JStr("y"), JStr("z")>>) :
        l1 \in TwoGroupLabels, l2 \in TwoGroupLabels,
        o1 \in {JStr("x"), Call1("get", JStr("b"))}}

Interpolations ==
    {Call0("linear"), Call0("step"), Call1("exponential", JNum(2)), JNull}

CurveInputExpressions == {Call0("zoom"), JNum(1)}

StopInputs == {JNum(0), JNum(2), JStr("a")}

StopOutputs == {JNum(1), JStr("a")}

CurveInputs ==
    {JArr(<<JStr("curve"), interpolation, input>>
          \o Flatten([i \in DOMAIN stops |-> <<stops[i][1], stops[i][2]>>])) :
        interpolation \in Interpolations,
        input \in CurveInputExpressions,
        stops \in SeqsUpTo(StopInputs \X StopOutputs, MaxStops)}

\* curves of the zoom with three and four stops, some with a stop input
\* written twice
LongCurveStops == {<<0, 2, 3>>, <<0, 1, 2>>, <<1, 2, 3>>, <<0, 0, 2>>, <<0, 1, 1, 2>>}

LongCurves ==
    {JArr(<<JStr("curve"), interpolation, Call0("zoom")>>
          \o Flatten([i \in DOMAIN stops |-> <<JNum(stops[i]), JNum(4 + i)>>])) :
        interpolation \in {Call0("step"), Call0("linear")},
        stops \in LongCurveStops}

Inputs ==
    CallInputs \cup OtherInputs \cup MatchInputs \cup TwoGroupMatches
        \cup CurveInputs \cup LongCurves

\* the expectedType argument: omitted, or one of these types; the longer
\* inputs are tried with it omitted and with one type only
ExpectedTypes ==
    {Undefined, NumberType, StringType, ValueType, BooleanType, typename("T"),
     lambda(NumberType, <<>>)}

ExpectedTypesFor(e) ==
    IF e.j # "array" \/ Len(e.items) <= 3 \/ e \in OtherInputs THEN ExpectedTypes
    ELSE IF e.items[1] = JStr("match") THEN {Undefined, StringType}
    ELSE IF e \in CurveInputs THEN {Undefined, NumberType, ValueType}
    ELSE {Undefined, NumberType}

\* the arguments of a call of the compiled function
Zooms == {JUndefined, JObj([zoom |-> JNum(0)]), JObj([zoom |-> JNum(1)]),
          JObj([zoom |-> JNum(2)])}

Features ==
    {JUndefined,
     JObj([properties |-> JObj([a |-> JNum(1)])]),
     JObj([properties |-> JObj([a |-> JStr("a"), o |-> JObj([a |-> JNull])]),
           id |-> JNum(7)]),
     JObj([properties |-> JObj([a |-> JNull, b |-> JStr("x")])]),
     JObj([properties |-> JNull, geometry |-> JObj([type |-> JStr("Point")])])}

(***************************************************************************)
(* The state machine: compileExpression(expr, expectedType) step by step,  *)
(* then calls of the function it returned.                                 *)
(***************************************************************************)
Init ==
    /\ expr \in Inputs
    /\ expectedType \in ExpectedTypesFor(expr)
    /\ pc = "parse"
    /\ parsed = Undefined
    /\ typecheckResult = Undefined
    /\ compiled = Undefined
    /\ mapProperties = Undefined
    /\ feature = Undefined
    /\ output = Undefined
    /\ search = Undefined
    /\ matching = Undefined
    /\ source = Undefined
    /\ calls = Undefined
    /\ network = Undefined

\* const parsed = parseExpression(expr); if (parsed.error) return ...;
\* if (parsed.type) ... else assert(false, ...)
Parse ==
    /\ pc = "parse"
    /\ parsed' = parseExpression(expr, <<>>)
    /\ IF isError(parsed')
       THEN /\ compiled' = compileErrors(<<parsed'>>)
            /\ pc' = "done"
       ELSE IF IsDefined(parsed'.type)
       THEN /\ compiled' = compiled
            /\ pc' = "typecheck"
       ELSE /\ compiled' = thrown("AssertionError")
            /\ pc' = "done"
    /\ UNCHANGED <<expr, expectedType, typecheckResult, mapProperties, feature, output,
                   search, matching, glyphVars>>

\* const typecheckResult = typecheck(expectedType || parsed.type, parsed);
\* if (typecheckResult.errors) return ...
Typecheck ==
    /\ pc = "typecheck"
    /\ typecheckResult' =
           typeCheckExpression(IF IsDefined(expectedType) THEN expectedType
                               ELSE parsed.type, parsed)
    /\ IF isErrors(typecheckResult')
       THEN /\ compiled' = compileErrors(typecheckResult'.errors)
            /\ pc' = "done"
       ELSE IF isThrown(typecheckResult')
       THEN /\ compiled' = typecheckResult'
            /\ pc' = "done"
       ELSE /\ compiled' = compiled
            /\ pc' = "compile"
    /\ parsed' = inputAfterCheck(parsed, typecheckResult')
    /\ UNCHANGED <<expr, expectedType, mapProperties, feature, output, search,
                   matching, glyphVars>>

\* const compiled = compile(null, typecheckResult); ... return compiled
Compile ==
    /\ pc = "compile"
    /\ compiled' = compile(Undefined, typecheckResult)
    /\ pc' = "done"
    /\ UNCHANGED <<expr, expectedType, parsed, typecheckResult, mapProperties,
                   feature, output, search, matching, glyphVars>>

\* compiled.function(mapProperties, feature)
Call ==
    /\ pc = "done"
    /\ ~isThrown(compiled)
    /\ compiled.result = "success"
    /\ \E m \in Zooms, f \in Features :
          /\ mapProperties' = m
          /\ feature' = f
          /\ output' = callFunction(compiled.js, m, f)
    /\ pc' = "called"
    /\ UNCHANGED <<expr, expectedType, parsed, typecheckResult, compiled, search,
                   matching, glyphVars>>

Next == Parse \/ Typecheck \/ Compile \/ Call

Spec == Init /\ [][Next]_vars

(***************************************************************************)
(* findStopLessThanOrEqualTo taken one turn of its loop at a time, on      *)
(* ascending lists of stops and inputs below, at, between and above them.  *)
(***************************************************************************)
MaxSearchStops == 5

MaxStopValue == 5

\* the strictly ascending lists of 2..MaxSearchStops stops
AscendingStops ==
    {s \in UNION {[1..n -> 0..MaxStopValue] : n \in 2..MaxSearchStops} :
        \A i \in 1..(Len(s) - 1) : s[i] < s[i + 1]}

SearchInputs == -1..(MaxStopValue + 1)

\* const n = stops.length; let lowerIndex = 0; let upperIndex = n - 1;
\* let currentIndex = 0;
SearchInit ==
    /\ pc = "search"
    /\ \E stops \in AscendingStops, input \in SearchInputs :
          search = [stops |-> stops, input |-> input, lowerIndex |-> 0,
                    upperIndex |-> Len(stops) - 1, currentIndex |-> 0, index |-> -1]
    /\ expr = Undefined
    /\ expectedType = Undefined
    /\ parsed = Undefined
    /\ typecheckResult = Undefined
    /\ compiled = Undefined
    /\ mapProperties = Undefined
    /\ feature = Undefined
    /\ output = Undefined
    /\ matching = Undefined
    /\ source = Undefined
    /\ calls = Undefined
    /\ network = Undefined

\* one turn of while (lowerIndex <= upperIndex) { ... }
SearchTurn ==
    /\ pc = "search"
    /\ search.lowerIndex <= search.upperIndex
    /\ LET currentIndex == (search.lowerIndex + search.upperIndex) \div 2
           currentValue == search.stops[currentIndex + 1]
           hasUpper == currentIndex + 2 <= Len(search.stops)
           upperValue == IF hasUpper THEN search.stops[currentIndex + 2] ELSE 0
       IN IF searchComplete(search.input, currentValue, hasUpper, upperValue)
          THEN /\ search' = [search EXCEPT !.currentIndex = currentIndex,
                                           !.index = currentIndex]
               /\ pc' = "found"
          ELSE IF currentValue < search.input
          THEN /\ search' = [search EXCEPT !.currentIndex = currentIndex,
                                           !.lowerIndex = currentIndex + 1]
               /\ pc' = pc
          ELSE \* else if (currentValue > input), the case left for two integers
               /\ search' = [search EXCEPT !.currentIndex = currentIndex,
                                           !.upperIndex = currentIndex - 1]
               /\ pc' = pc
    /\ UNCHANGED <<expr, expectedType, parsed, typecheckResult, compiled,
                   mapProperties, feature, output, matching, glyphVars>>

\* the loop is left: return Math.max(currentIndex - 1, 0)
SearchExit ==
    /\ pc = "search"
    /\ ~(search.lowerIndex <= search.upperIndex)
    /\ search' = [search EXCEPT !.index = Max(search.currentIndex - 1, 0)]
    /\ pc' = "found"
    /\ UNCHANGED <<expr, expectedType, parsed, typecheckResult, compiled,
                   mapProperties, feature, output, matching, glyphVars>>

SearchNext == SearchTurn \/ SearchExit

\* the function runs to its return once called
SearchSpec == SearchInit /\ [][SearchNext]_vars /\ WF_vars(SearchNext)

(***************************************************************************)
(* match called on its own, as typeCheckExpression calls it for the types  *)
(* of the nodes it is given: the expected type, the type t and the two     *)
(* typename maps are drawn from the sets below.                            *)
(***************************************************************************)
MatchExpectedTypes ==
    {variant(<<vector(T), StringType>>), variant(<<vector(T), anyArray(T)>>),
     variant(<<NumberType, StringType>>), ValueType, NumberType, vector(T), T}

MatchGivenTypes ==
    {NullType, NumberType, StringType, vector(NumberType), vector(StringType),
     array(NumberType, 2), ValueType, U,
     variant(<<NumberType, StringType>>),
     variant(<<vector(NumberType), NumberType>>),
     variant(<<vector(NumberType), StringType>>),
     variant(<<vector(NumberType), vector(StringType)>>)}

MatchExpectedTypenames == {NoTypenames, [NoTypenames EXCEPT !["T"] = StringType]}

MatchGivenTypenames == {NoTypenames, [NoTypenames EXCEPT !["U"] = NumberType]}

\* match(expected, t, expectedTypenames, tTypenames) is about to be called
MatchInit ==
    /\ pc = "match"
    /\ \E expected \in MatchExpectedTypes, t \in MatchGivenTypes,
          expectedTypenames \in MatchExpectedTypenames,
          tTypenames \in MatchGivenTypenames :
          matching = [expected |-> expected, t |-> t,
                      expectedTypenames |-> expectedTypenames,
                      tTypenames |-> tTypenames, result |-> Undefined]
    /\ expr = Undefined
    /\ expectedType = Undefined
    /\ parsed = Undefined
    /\ typecheckResult = Undefined
    /\ compiled = Undefined
    /\ mapProperties = Undefined
    /\ feature = Undefined
    /\ output = Undefined
    /\ search = Undefined
    /\ source = Undefined
    /\ calls = Undefined
    /\ network = Undefined

\* the call returns: the error, and the two maps as the call leaves them
MatchCall ==
    /\ pc = "match"
    /\ matching' = [matching EXCEPT
                       !.result = match(matching.expected, matching.t,
                                        matching.expectedTypenames, matching.tTypenames)]
    /\ pc' = "matched"
    /\ UNCHANGED <<expr, expectedType, parsed, typecheckResult, compiled,
                   mapProperties, feature, output, search, glyphVars>>

MatchSpec == MatchInit /\ [][MatchCall]_vars

(***************************************************************************)
(* The glyph source (glyph_source.js).                                     *)
(* source holds the tables of the GlyphSource object (the keys of stacks   *)
(* that hold a loaded range, the fontstacks with an atlas, the pending     *)
(* entries of loading), calls the closures of the getSimpleGlyphs calls    *)
(* made so far, network the requests handed to ajax.getArrayBuffer.  A     *)
(* queued callback is the onRangeLoaded of a call, named by the index of   *)
(* the call.  A response without error carries every glyph of its range.   *)
(***************************************************************************)
\* glyph id arrays a call may pass: ranges 0 and 1 are loaded over the
\* network, 19968 (0x4E00) lies in a range drawn locally, 70000 is above
\* 65535, and 33 ('!') has a vertical form at 65045 (0xFE15)
GlyphIDArrays ==
    {<<>>, <<65>>, <<65, 300>>, <<33>>, <<19968>>, <<300, 70000>>}

\* the calls made: every array for the first fontstack, and range 0 for the
\* second
GlyphRequests ==
    {<<"Regular", glyphIDs>> : glyphIDs \in GlyphIDArrays} \cup {<<"Bold", <<65>>>>}

NetworkError == "error"

Unsupported == "glyphs > 65535 not supported"

ResponseErrors == {NoError, NetworkError}

\* Math.floor(glyphID / 256)
rangeOf(glyphID) == glyphID \div 256

\* verticalizePunctuation.lookup, for the one punctuation mark requested
verticalizePunctuation == [glyphID \in {33} |-> 65045]

\* the ids getGlyph is called with, for the array given
RECURSIVE requestedGlyphs(_)
requestedGlyphs(glyphIDs) ==
    IF glyphIDs = <<>> THEN {}
    ELSE {Head(glyphIDs)}
         \cup (IF Head(glyphIDs) \in DOMAIN verticalizePunctuation
               THEN {verticalizePunctuation[Head(glyphIDs)]} ELSE {})
         \cup requestedGlyphs(Tail(glyphIDs))

\* for (const r in missing): integer keys are visited in ascending order
RECURSIVE keysInOrder(_)
keysInOrder(missing) ==
    IF missing = {} THEN <<>>
    ELSE LET r == CHOOSE x \in missing : \A y \in missing : x <= y
         IN <<r>> \o keysInOrder(missing \ {r})

\* the test passed after every report as well
allReported_Always(remaining) == TRUE

\* if (!remaining) callback(undefined, glyphs, fontstack)
allReported(remaining) == remaining = 0

\* the test never passed: every loadRange starts a request of its own
isPending_Never(loading, key) == FALSE

\* if (loading[range]) ...
isPending(loading, key) == key \in DOMAIN loading

\* onRangeLoaded(err, range, data) of the call c, in the world w of the three
\* variables; the report of a range above 65535 has no range, as loadRange
\* passes none
onRangeLoaded(w, c, report) ==
    LET call == w.calls[c]
        err == report.err
        range == report.range
        loaded == {g \in requestedGlyphs(call.glyphIDs) : rangeOf(g) = range}
        remaining == call.remaining - 1
    IN [w EXCEPT
          !.source.stacks = IF err = NoError THEN @ \cup {<<call.fontstack, range>>} ELSE @,
          !.calls[c] = [call EXCEPT
                           !.glyphs = IF err = NoError THEN @ \cup loaded ELSE @,
                           !.remaining = remaining,
                           !.callbacks = IF allReported(remaining) THEN @ + 1 ELSE @,
                           !.reports = Append(@, report)]]

\* loadRange(fontstack, range, onRangeLoaded of c)
loadRange(w, c, range) ==
    LET key == <<w.calls[c].fontstack, range>>
        loading == w.source.loading
    IN
    IF range * 256 > 65535 THEN onRangeLoaded(w, c, [err |-> Unsupported])
    ELSE IF range * 256 >= 19968 /\ range * 256 <= 40959
         THEN \* loadCJKRange: callback(null, range, glyphs)
              onRangeLoaded(w, c, [err |-> NoError, range |-> range])
    ELSE IF isPending(loading, key)
         THEN [w EXCEPT !.source.loading =
                            [loading EXCEPT ![key] = Append(@, c)]]
    ELSE [w EXCEPT
             !.source.loading =
                 [k \in DOMAIN loading \cup {key} |->
                     IF k = key THEN <<c>> ELSE loading[k]],
             !.network.requests = Append(@, key),
             !.network.started = @ + 1]

\* for (const r in missing) this.loadRange(fontstack, r, onRangeLoaded)
RECURSIVE loadRanges(_, _, _)
loadRanges(w, c, ranges) ==
    IF ranges = <<>> THEN w
    ELSE loadRanges(loadRange(w, c, Head(ranges)), c, Tail(ranges))

\* getSimpleGlyphs(fontstack, glyphIDs, uid, callback)
getSimpleGlyphs(w, fontstack, glyphIDs) ==
    LET c == Len(w.calls) + 1
        found == {g \in requestedGlyphs(glyphIDs) :
                     <<fontstack, rangeOf(g)>> \in w.source.stacks}
        missing == {rangeOf(g) : g \in requestedGlyphs(glyphIDs) \ found}
        remaining == Cardinality(missing)
        call == [fontstack |-> fontstack, glyphIDs |-> glyphIDs, glyphs |-> found,
                 missing |-> missing, remaining |-> remaining,
                 callbacks |-> IF allReported(remaining) THEN 1 ELSE 0,
                 reports |-> <<>>]
        entered == [w EXCEPT !.source.atlases = @ \cup {fontstack},
                             !.calls = Append(@, call)]
    IN loadRanges(entered, c, keysInOrder(missing))

\* the callbacks of a pending entry called in turn: for (let i = 0; i <
\* loading[range].length; i++) loading[range][i](err, range, glyphs)
RECURSIVE callQueued(_, _, _, _)
callQueued(w, queue, err, range) ==
    IF queue = <<>> THEN w
    ELSE callQueued(onRangeLoaded(w, Head(queue), [err |-> err, range |-> range]),
                    Tail(queue), err, range)

\* the callback handed to ajax.getArrayBuffer, for the request at position i
respond(w, i, err) ==
    LET key == w.network.requests[i]
        loading == w.source.loading
        answered == [w EXCEPT
                        !.network.requests =
                            SubSeq(@, 1, i - 1) \o SubSeq(@, i + 1, Len(@)),
                        !.network.last = [key |-> key, err |-> err, called |-> <<>>]]
    IN
    IF key \notin DOMAIN loading
    THEN \* loading[range].length of undefined: a TypeError, nobody is called
         answered
    ELSE LET called == callQueued(answered, loading[key], err, key[2])
         IN [called EXCEPT
                !.source.loading = [k \in DOMAIN loading \ {key} |-> loading[k]],
                !.network.last.called = loading[key]]

World == [source |-> source, calls |-> calls, network |-> network]

GlyphInit ==
    /\ pc = "glyphs"
    /\ source = [stacks |-> {}, atlases |-> {}, loading |-> [k \in {} |-> <<>>]]
    /\ calls = <<>>
    /\ network = [requests |-> <<>>, started |-> 0, last |-> Undefined]
    /\ expr = Undefined
    /\ expectedType = Undefined
    /\ parsed = Undefined
    /\ typecheckResult = Undefined
    /\ compiled = Undefined
    /\ mapProperties = Undefined
    /\ feature = Undefined
    /\ output = Undefined
    /\ search = Undefined
    /\ matching = Undefined

\* a call of getSimpleGlyphs, with every loadRange it makes
GetSimpleGlyphs ==
    /\ pc = "glyphs"
    /\ Len(calls) < MaxCalls
    /\ \E request \in GlyphRequests :
          LET step(w) == /\ source' = w.source
                         /\ calls' = w.calls
                         /\ network' = w.network
          IN step(getSimpleGlyphs(World, request[1], request[2]))
    /\ UNCHANGED <<expr, expectedType, pc, parsed, typecheckResult, compiled,
                   mapProperties, feature, output, search, matching>>

\* a request in flight is answered, with glyphs or with an error
Respond ==
    /\ pc = "glyphs"
    /\ \E i \in DOMAIN network.requests, err \in ResponseErrors :
          LET step(w) == /\ source' = w.source
                         /\ calls' = w.calls
                         /\ network' = w.network
          IN step(respond(World, i, err))
    /\ UNCHANGED <<expr, expectedType, pc, parsed, typecheckResult, compiled,
                   mapProperties, feature, output, search, matching>>

GlyphNext == GetSimpleGlyphs \/ Respond

\* ajax.getArrayBuffer calls back once the request has loaded or failed
GlyphSpec == GlyphInit /\ [][GlyphNext]_vars /\ WF_vars(Respond)

(***************************************************************************)
(* Properties.  Shared vocabulary first.                                   *)
(***************************************************************************)
isNode(r) == "literal" \in DOMAIN r

\* parseExpression has returned
Parsed == pc # "parse"

\* typecheck has returned a tree
Checked == pc \in {"compile", "done", "called"} /\ isNode(typecheckResult)

\* compileExpression has returned or thrown
Returned == pc \in {"done", "called"}

\* every node of a tree: the node, its arguments' nodes and its match inputs
RECURSIVE Nodes(_)
Nodes(n) ==
    IF n.literal THEN {n}
    ELSE {n} \cup UNION {Nodes(n.arguments[i]) : i \in DOMAIN n.arguments}
             \cup UNION {Range(n.matchInputs[i]) : i \in DOMAIN n.matchInputs}

CallNodes(n) == {c \in Nodes(n) : ~c.literal}

\* a type in which a typename occurs, decided on the structure of the type
RECURSIVE MentionsTypeName(_)
MentionsTypeName(type) ==
    CASE type.kind = "typename" -> TRUE
      [] type.kind = "primitive" -> FALSE
      [] type.kind \in {"vector", "array", "any_array"} -> MentionsTypeName(type.itemType)
      [] type.kind = "variant" ->
            "members" \in DOMAIN type
            /\ \E i \in DOMAIN type.members : MentionsTypeName(type.members[i])
      [] type.kind = "nargs" ->
            \E i \in DOMAIN type.types : MentionsTypeName(type.types[i])
      [] type.kind = "lambda" ->
            MentionsTypeName(type.result)
            \/ \E i \in DOMAIN type.params : MentionsTypeName(type.params[i])

\* C1: in the tree a successful typecheck returns, the result type of every
\* call mentions no typename.
C1_ResultTypesResolved ==
    Checked => \A n \in CallNodes(typecheckResult) : ~MentionsTypeName(n.type.result)

\* a call whose declared result type is the typename T was checked, and its
\* result type was resolved from its arguments
C1_Witness ==
    /\ Checked
    /\ ~typecheckResult.literal
    /\ parsed.type.result = T
    /\ typecheckResult.type.result \in {NumberType, StringType, ValueType}
    /\ Len(typecheckResult.arguments) > 0

\* C2 (as stated): no call of the checked tree has a typename anywhere in its
\* type, neither in the result nor in a parameter.
C2_NoGenericType ==
    Checked =>
        \A n \in CallNodes(typecheckResult) :
            /\ ~MentionsTypeName(n.type.result)
            /\ \A i \in DOMAIN n.type.params : ~MentionsTypeName(n.type.params[i])

\* typecheck has returned or thrown
TypecheckDone == IsDefined(typecheckResult)

\* the least integer c with c * d >= x
LeastMultiple(x, d) ==
    CHOOSE c \in -(MaxArgs + MaxMatchLen + 2 * MaxStops + 4)..(MaxArgs + MaxMatchLen + 2 * MaxStops + 4) :
        c * d >= x /\ (c - 1) * d < x

\* how many parameters a parameter list stands for when argc arguments are given
RECURSIVE UnrolledLength(_, _, _)
UnrolledLength(params, i, argc) ==
    IF i > Len(params) THEN 0
    ELSE (IF params[i].kind = "nargs"
          THEN LET c == LeastMultiple(argc - (Len(params) - 1), Len(params[i].types))
                   k == IF c > params[i].N THEN params[i].N ELSE c
               IN IF k > 0 THEN k * Len(params[i].types) ELSE 0
          ELSE 1)
         + UnrolledLength(params, i + 1, argc)

\* the parameter list a call is checked against: the one its definition
\* declares, or the expected type's when compileExpression was given a lambda
\* type for the outermost call
DeclaredParams(c) ==
    IF c.key = <<>> /\ IsDefined(expectedType) /\ expectedType.kind = "lambda"
    THEN expectedType.params
    ELSE IF c.name = "array" THEN <<nargs(Infinity, <<T>>)>>
    ELSE definitionType(c.name).params

ArityFits(c) ==
    Len(c.arguments) = UnrolledLength(DeclaredParams(c), 1, Len(c.arguments))

\* the declared result type of the outermost call matches the expected type
ResultTypeMatches ==
    LET expected == IF IsDefined(expectedType) THEN expectedType ELSE parsed.type IN
    match(IF expected.kind = "lambda" THEN expected.result ELSE expected,
          parsed.type.result, NoTypenames, NoTypenames).error = NoError

C3_Accepted ==
    Checked =>
        \A c \in CallNodes(typecheckResult) :
            /\ Len(c.arguments) = Len(c.type.params)
            /\ \A i \in DOMAIN c.type.params : c.type.params[i].kind # "nargs"
            /\ ArityFits(c)

C3_NestedRejected ==
    (TypecheckDone /\ \E c \in CallNodes(parsed) : ~ArityFits(c))
        => ~isNode(typecheckResult)

\* C3 (amended): a checked call has as many arguments as parameters, none of
\* them an NArgs, each NArgs having been unrolled min(N, ceil((argCount -
\* (paramCount - 1)) / types.length)) times; an expression holding a call that
\* this count does not fit is not accepted, and when the outermost call is such
\* a call the one error is ArityMismatch if its declared result type matches the
\* expected type, the TypeMismatch of the result type if not.
C3_Arity ==
    /\ C3_Accepted
    /\ C3_NestedRejected
    /\ (TypecheckDone /\ ~parsed.literal /\ ~ArityFits(parsed))
           => /\ isErrors(typecheckResult)
              /\ typecheckResult.errors =
                     <<errorAt(<<>>, IF ResultTypeMatches THEN "ArityMismatch"
                                     ELSE "TypeMismatch")>>

\* a call of case, declared (nargs(Infinity, Boolean, T), T), checked with three
\* arguments and three parameters
C3_Witness ==
    /\ Checked
    /\ ~typecheckResult.literal
    /\ typecheckResult.name = "case"
    /\ Len(typecheckResult.arguments) = 3
    /\ typecheckResult.type.params = <<BooleanType, NumberType, NumberType>>

\* C3 (as stated): the same, the rejection being an arity error in every case.
C3_ArityAsStated ==
    /\ C3_Accepted
    /\ (TypecheckDone /\ ~parsed.literal /\ ~ArityFits(parsed))
           => /\ isErrors(typecheckResult)
              /\ typecheckResult.errors = <<errorAt(<<>>, "ArityMismatch")>>

\* C4 (as stated, its first half): whatever parseExpression returns is a
\* ParseError or an Expression, a tree every node of which has a type.
C4_ExpressionOrParseError ==
    Parsed => (isError(parsed) \/ \A n \in Nodes(parsed) : IsDefined(n.type))

\* C4 (as stated, its second half): the key of a ParseError is not empty.
C4_ErrorKeyNotEmpty ==
    (Parsed /\ isError(parsed)) => parsed.key # <<>>

\* the JSON arrays the parser treats as a match, their label positions (the
\* first elements of the pairs that precede the last element) and the group a
\* label stands for
IsMatchArray(e) ==
    e.j = "array" /\ Len(e.items) >= 3 /\ e.items[1] = JStr("match")

LabelPositions(e) == {i \in 2..(Len(e.items) - 3) : i % 2 = 0}

Label(e, i) == e.items[i + 1]

GroupOf(label) == IF label.j = "array" THEN label.items ELSE <<label>>

IsPrimitive(v) == v.j \in {"null", "number", "string", "boolean"}

IsLiteralLabel(label) == \A k \in DOMAIN GroupOf(label) : IsPrimitive(GroupOf(label)[k])

\* the key `.i.j` the parser gives the error on element j of the label at i of
\* an outermost match
GroupElementKey(i, j) == <<".", DigitChars[i + 1], ".", DigitChars[j + 1]>>

NonLiteralRejected == isError(parsed) /\ parsed.error = "NonLiteralMatchInput"

\* the input, every output and the otherwise of a match array parse
RestOfMatchParses(e) ==
    /\ ~isError(parseExpression(e.items[2], <<1>>))
    /\ \A i \in LabelPositions(e) : ~isError(parseExpression(e.items[i + 2], <<i + 1>>))
    /\ ~isError(parseExpression(e.items[Len(e.items)], <<Len(e.items) - 1>>))

\* C5 (amended): a label is read as a group of values, the array's elements or
\* the label itself, and each is parsed as an expression.  NonLiteralMatchInput
\* is the error of a group element that parses to a call, and of nothing else; a
\* label whose elements are all primitives, ["get", "x"] among them, is a group
\* of literals, and the match parses when its groups are not empty and the rest
\* of it parses.
C5_NonLiteralLabels ==
    (Parsed /\ IsMatchArray(expr)) =>
        /\ NonLiteralRejected =>
              \E i \in LabelPositions(expr) :
                 \E j \in 0..(Len(GroupOf(Label(expr, i))) - 1) :
                    /\ ~IsPrimitive(GroupOf(Label(expr, i))[j + 1])
                    /\ parsed.key = GroupElementKey(i, j)
        /\ (\A i \in LabelPositions(expr) : IsLiteralLabel(Label(expr, i)))
              => /\ ~NonLiteralRejected
                 /\ ((\A i \in LabelPositions(expr) : Label(expr, i) # JArr(<<>>))
                     /\ RestOfMatchParses(expr)) => isNode(parsed)
        /\ (/\ 2 \in LabelPositions(expr)
            /\ ~isError(parseExpression(expr.items[2], <<1>>))
            /\ Label(expr, 2).j = "array"
            /\ Len(Label(expr, 2).items) > 0
            /\ LET first == parseExpression(Label(expr, 2).items[1], <<2, 0>>)
               IN ~isError(first) /\ ~first.literal)
              => (NonLiteralRejected /\ parsed.key = GroupElementKey(2, 0))

\* a match whose first label is ["get", "x"] has parsed: the label became a
\* group of the two string literals
C5_Witness ==
    /\ Parsed
    /\ IsMatchArray(expr)
    /\ 2 \in LabelPositions(expr)
    /\ Label(expr, 2) = Call1("get", JStr("x"))
    /\ isNode(parsed)
    /\ Len(parsed.matchInputs[1]) = 2
    /\ parsed.matchInputs[1][1].value = JStr("get")

\* C5 (as stated): a match with a label that is neither a primitive nor an
\* array of primitives is rejected with NonLiteralMatchInput, and a match with
\* the label ["get", "x"] does not parse.
C5_AsStated ==
    (Parsed /\ IsMatchArray(expr)) =>
        /\ (\E i \in LabelPositions(expr) : ~IsLiteralLabel(Label(expr, i)))
              => NonLiteralRejected
        /\ (\E i \in LabelPositions(expr) : Label(expr, i) = Call1("get", JStr("x")))
              => isError(parsed)

\* C6: the matchInputs of a parsed (and of a checked) match are groups that are
\* not empty and hold literal nodes only, and a match with an empty array as a
\* label does not parse.
C6_MatchGroups ==
    /\ (Parsed /\ isNode(parsed)) =>
           \A n \in CallNodes(parsed) :
              \A g \in DOMAIN n.matchInputs :
                 /\ Len(n.matchInputs[g]) > 0
                 /\ \A k \in DOMAIN n.matchInputs[g] : n.matchInputs[g][k].literal
    /\ Checked =>
           \A n \in CallNodes(typecheckResult) :
              \A g \in DOMAIN n.matchInputs :
                 /\ Len(n.matchInputs[g]) > 0
                 /\ \A k \in DOMAIN n.matchInputs[g] : n.matchInputs[g][k].literal
    /\ (Parsed /\ IsMatchArray(expr)
        /\ \E i \in LabelPositions(expr) : Label(expr, i) = JArr(<<>>))
           => isError(parsed)

\* a match whose first label is the empty array was refused for it
C6_Witness ==
    /\ Parsed
    /\ IsMatchArray(expr)
    /\ 2 \in LabelPositions(expr)
    /\ Label(expr, 2) = JArr(<<>>)
    /\ isError(parsed)
    /\ parsed.error = "EmptyMatchGroup"

\* the index paths of the elements of a JSON value
RECURSIVE Paths(_)
Paths(e) ==
    IF e.j # "array" THEN {<<>>}
    ELSE {<<>>} \cup UNION {{<<i - 1>> \o q : q \in Paths(e.items[i])} : i \in DOMAIN e.items}

\* the node parsed from the JSON element at path has the dot-joined path as its
\* key, and so have the nodes below it
RECURSIVE KeysFollowPaths(_, _, _)
KeysFollowPaths(n, e, path) ==
    /\ n.key = join(path)
    /\ IF n.literal THEN TRUE
       ELSE IF n.hasMatchInputs
       THEN /\ KeysFollowPaths(n.arguments[1], e.items[2], path \o <<1>>)
            /\ \A g \in DOMAIN n.matchInputs :
                  /\ \A k \in DOMAIN n.matchInputs[g] :
                        n.matchInputs[g][k].key =
                           join(IF Label(e, 2 * g).j = "array"
                                THEN path \o <<2 * g, k - 1>>
                                ELSE path \o <<2 * g>>)
                  /\ KeysFollowPaths(n.arguments[g + 1], e.items[2 * g + 2],
                                     path \o <<2 * g + 1>>)
            /\ KeysFollowPaths(n.arguments[Len(n.arguments)], e.items[Len(e.items)],
                               path \o <<Len(e.items) - 1>>)
       ELSE \A k \in DOMAIN n.arguments :
               KeysFollowPaths(n.arguments[k], e.items[k + 1], path \o <<k>>)

\* C7 (as stated): the key of every node, and of a ParseError, is the
\* dot-joined index path of the JSON element it was parsed from.
C7_KeysArePaths ==
    Parsed =>
        IF isError(parsed) THEN parsed.key \in {join(q) : q \in Paths(expr)}
        ELSE KeysFollowPaths(parsed, expr, <<>>)

\* the outermost JSON value is a call of a definition other than match, and
\* its arguments
IsPlainCall(e) ==
    /\ e.j = "array"
    /\ Len(e.items) > 0
    /\ e.items[1].j = "string"
    /\ e.items[1].s \in ExpressionNames \ {"match"}

ArgumentPositions(e) == 1..(Len(e.items) - 1)

\* an argument that is in error whatever surrounds it: it does not parse, or
\* it does not typecheck against its own type
SelfContainedError(a) ==
    LET p == parseExpression(a, <<>>) IN
    \/ isError(p)
    \/ (IsDefined(p.type) /\ ~isNode(typeCheckExpression(p.type, p)))

\* an argument whose own result type is a concrete type that is not a number
\* (nor null): a mismatch with a parameter of type Number
NotANumber(a) ==
    LET p == parseExpression(a, <<>>) IN
    /\ ~isError(p)
    /\ IsDefined(p.type)
    /\ ~isGeneric(IF p.literal THEN p.type ELSE p.type.result)
    /\ (IF p.literal THEN p.type ELSE p.type.result) \notin {NumberType, NullType}

\* the error list has an entry at or below argument i of the outermost call
HasEntryUnder(errors, i) ==
    \E k \in DOMAIN errors :
        /\ Len(errors[k].key) >= 1
        /\ errors[k].key[1] = DigitChars[i + 1]
        /\ (Len(errors[k].key) > 1 => errors[k].key[2] = ".")

\* the outermost call is a sum, checked against the parameters of its
\* definition, whose result type the expected type accepts
IsCheckedSum ==
    /\ IsPlainCall(expr)
    /\ expr.items[1].s = "+"
    /\ isNode(parsed)
    /\ DeclaredParams(parsed) = definitionType("+").params
    /\ ResultTypeMatches

RECURSIVE Ascending(_)
Ascending(S) ==
    IF S = {} THEN <<>>
    ELSE LET least == CHOOSE x \in S : \A y \in S : x <= y
         IN <<least>> \o Ascending(S \ {least})

C9_NeverThrows ==
    Returned =>
        /\ ~isThrown(compiled)
        /\ compiled.result \in {"success", "error"}
        /\ compiled.result = "error" => Len(compiled.errors) > 0

\* C10: when the compiled expression is flagged isZoomConstant, the call gives
\* the result it gives with any other mapProperties and the same feature; when
\* it is flagged isFeatureConstant, the result it gives with any other feature
\* and the same mapProperties.
C10_ConstantFlags ==
    pc = "called" =>
        /\ compiled.isZoomConstant =>
              \A m \in Zooms : callFunction(compiled.js, m, feature) = output
        /\ compiled.isFeatureConstant =>
              \A f \in Features : callFunction(compiled.js, mapProperties, f) = output

\* an expression flagged constant in the zoom and not in the feature was
\* called and returned a value
C10_Witness ==
    /\ pc = "called"
    /\ compiled.isZoomConstant
    /\ ~compiled.isFeatureConstant
    /\ ~threw(output)
    /\ \E f \in Features : callFunction(compiled.js, mapProperties, f) # output

(***************************************************************************)
(* C11: a call declared to return Value where a String is expected         *)
(***************************************************************************)
GetA == Call1("get", JStr("a"))

CoalesceExample ==
    JArr(<<JStr("coalesce"), Call1("get", JStr("a")), Call1("get", JStr("b")),
           JStr("none")>>)

\* the properties the compiled function reads for a feature, when they are
\* an object: none for a missing feature
PropertiesOf(feat) ==
    IF feat = JUndefined THEN <<>>
    ELSE IF "properties" \in DOMAIN feat.o /\ feat.o.properties.j = "object"
    THEN feat.o.properties.o
    ELSE Undefined

\* what reading a property of these properties gives
PropertyOf(properties, name) ==
    IF name \in DOMAIN properties THEN returned(properties[name])
    ELSE raised("PropertyNotFound")

CoalesceCalled == pc = "called" /\ compiled.js.name = "coalesce"

\* what the i-th thunk of the compiled coalesce gives in this call
ThunkResult(i) ==
    evaluate(compiled.js.args[i], evaluationContext(mapProperties, feature))

\* the i-th thunk returns a value that is not null
ReturnsNonNull(i) == ~threw(ThunkResult(i)) /\ ThunkResult(i).value # JNull

\* the loop of coalesce in this call
CoalesceRun ==
    coalesceFrom(compiled.js.args, evaluationContext(mapProperties, feature), 0)

MatchCalled ==
    /\ pc = "called"
    /\ compiled.js.name = "match"
    /\ ~threw(evaluate(compiled.js.input, evaluationContext(mapProperties, feature)))

MatchInputValue ==
    evaluate(compiled.js.input, evaluationContext(mapProperties, feature)).value

\* the groups with a label equal to the input, in type and in value
GroupsOfInput ==
    {k \in DOMAIN compiled.expression.matchInputs :
        \E j \in DOMAIN compiled.expression.matchInputs[k] :
            compiled.expression.matchInputs[k][j].value = MatchInputValue}

\* what the call gives when the i-th output thunk, and no other, is called
OutputOf(i) ==
    callFunction(compiled.js.outputs[i], mapProperties, feature)

CurveCompiled ==
    /\ Returned
    /\ ~isThrown(compiled)
    /\ compiled.result = "success"
    /\ compiled.js.name = "curve"

C14_NeverDescending ==
    CurveCompiled =>
        \A i \in 1..(Len(compiled.js.stopInputs) - 1) :
            compiled.js.stopInputs[i] <= compiled.js.stopInputs[i + 1]

(***************************************************************************)
(* C16: the binary search over the stops                                    *)
(***************************************************************************)
\* findStopLessThanOrEqualTo has returned
Found == pc = "found"

\* the input lies between the first stop (included) and the last (excluded)
InsideStops ==
    /\ search.stops[1] <= search.input
    /\ search.input < search.stops[Len(search.stops)]

\* the stop at the index returned and the next one enclose the input
Encloses ==
    /\ search.stops[search.index + 1] <= search.input
    /\ search.index + 2 <= Len(search.stops)
    /\ search.input < search.stops[search.index + 2]

CurveCalled ==
    /\ pc = "called"
    /\ compiled.js.name = "curve"
    /\ Len(compiled.js.stopInputs) > 0
    /\ mapProperties # JUndefined
    /\ compiled.js.input = [name |-> "zoom"] \/ compiled.js.input.name = "literal"

CurveInput ==
    evaluate(compiled.js.input, evaluationContext(mapProperties, feature)).value.n

\* what the i-th output thunk of the curve gives in this call
StopOutput(i) ==
    evaluate(compiled.js.stopOutputs[i], evaluationContext(mapProperties, feature))

\* the greatest position i with stopInputs[i] <= x
GreatestStopAtMost(x) ==
    CHOOSE i \in DOMAIN compiled.js.stopInputs :
        /\ compiled.js.stopInputs[i] <= x
        /\ \A j \in DOMAIN compiled.js.stopInputs :
              compiled.js.stopInputs[j] <= x => j <= i

\* the interpolation between the outputs at positions i and i + 1
Interpolated(i) ==
    returned(Sym(compiled.js.resultType, "interpolate",
                 <<StopOutput(i).value, StopOutput(i + 1).value, CurveInput,
                   compiled.js.interpolation.base, compiled.js.stopInputs[i],
                   compiled.js.stopInputs[i + 1]>>))

\* what the claim says the curve gives for the input x
CurveValue(x) ==
    LET n == Len(compiled.js.stopInputs) IN
    IF n = 1 \/ x <= compiled.js.stopInputs[1] THEN StopOutput(1)
    ELSE IF x >= compiled.js.stopInputs[n] THEN StopOutput(n)
    ELSE IF compiled.js.interpolation.name = "step"
    THEN StopOutput(GreatestStopAtMost(x))
    ELSE Interpolated(GreatestStopAtMost(x))

StrictlyAscendingStops ==
    \A i \in 1..(Len(compiled.js.stopInputs) - 1) :
        compiled.js.stopInputs[i] < compiled.js.stopInputs[i + 1]

C15_OnStrictlyAscendingStops ==
    (CurveCalled /\ StrictlyAscendingStops) => output = CurveValue(CurveInput)

(***************************************************************************)
(* C17: checking a checked tree again                                       *)
(***************************************************************************)
\* the expected type compileExpression hands to typecheck
ExpectedOfCheck == IF IsDefined(expectedType) THEN expectedType ELSE parsed.type

\* the result type of a node: the type of a literal, type.result of a call
ResultTypeOf(n) == IF n.literal THEN n.type ELSE n.type.result

\* what the result type of a node is matched against, given the expected type
ExpectedResult(expected, n) ==
    IF ~n.literal /\ expected.kind = "lambda" THEN expected.result ELSE expected

\* a type with an NArgs among the params of a lambda
HasNArgs(type) ==
    type.kind = "lambda" /\ \E i \in DOMAIN type.params : type.params[i].kind = "nargs"

\* a tree whose calls all have a type without typenames and without NArgs
IsResolvedTree(n) ==
    \A c \in CallNodes(n) : ~MentionsTypeName(c.type) /\ ~HasNArgs(c.type)

\* an expected type that is a lambda has the params the call declares
ParamsAsDeclared ==
    ExpectedOfCheck.kind = "lambda" => ExpectedOfCheck.params = parsed.type.params

\* C17 (as stated): when typecheck(expected, e) returns a tree c, matching
\* expected against the result type of c reports no error, typecheck(expected,
\* c) returns a tree equal to c, and a literal or a call whose declared type is
\* not generic is returned with an equal type, arguments and key.
C17_AsStated ==
    Checked =>
        /\ match(ExpectedResult(ExpectedOfCheck, typecheckResult),
                 ResultTypeOf(typecheckResult), NoTypenames, NoTypenames).error = NoError
        /\ typeCheckExpression(ExpectedOfCheck, typecheckResult) = typecheckResult
        /\ ~parsed.literal /\ ~isGeneric(parsed.type) =>
              /\ typecheckResult.type = parsed.type
              /\ typecheckResult.arguments = parsed.arguments
              /\ typecheckResult.key = parsed.key

\* C17 (amended): when typecheck(expected, e) returns a tree c, matching expected
\* against the result type of c reports no error and typecheck(expected, c)
\* returns a tree equal to c; a literal, and a call whose types are already
\* free of typenames and of variadic params and which is checked against its
\* own params, is returned equal to what was given, type, arguments and key.
C17_Idempotent ==
    Checked =>
        /\ match(ExpectedResult(ExpectedOfCheck, typecheckResult),
                 ResultTypeOf(typecheckResult), NoTypenames, NoTypenames).error = NoError
        /\ typeCheckExpression(ExpectedOfCheck, typecheckResult) = typecheckResult
        /\ (parsed.literal \/ (IsResolvedTree(parsed) /\ ParamsAsDeclared)) =>
              typecheckResult = parsed

\* a call with a generic declared type was checked: the tree returned differs
\* from the parsed one and checking it again returns it
C17_Witness ==
    /\ Checked
    /\ ~parsed.literal
    /\ MentionsTypeName(parsed.type)
    /\ Len(parsed.arguments) > 0
    /\ typecheckResult # parsed
    /\ typeCheckExpression(ExpectedOfCheck, typecheckResult) = typecheckResult

(***************************************************************************)
(* C18: a call whose declared result type is a typename                     *)
(***************************************************************************)
\* the outermost call is declared to return a typename, has the number of
\* arguments its params ask for, and typecheck has returned
GenericCallChecked ==
    /\ TypecheckDone
    /\ ~parsed.literal
    /\ parsed.type.result.kind = "typename"
    /\ ArityFits(parsed)

\* the params the outermost call is checked against, unrolled
UnrolledParams == expandParams(DeclaredParams(parsed), Len(parsed.arguments))

\* the positions of the arguments whose param is the typename of the result
ResultPositions ==
    {i \in DOMAIN parsed.arguments : UnrolledParams[i] = parsed.type.result}

\* the declared result type of the i-th argument
ArgumentResult(i) == ResultTypeOf(parsed.arguments[i])

\* the concrete type the expected type asks for, if it asks for one
ExpectedConcrete ==
    IF ~IsDefined(expectedType) THEN Undefined
    ELSE IF isGeneric(ExpectedResult(expectedType, parsed)) THEN Undefined
    ELSE ExpectedResult(expectedType, parsed)

\* the first argument in a position of the result typename whose declared
\* result type is concrete: no typename in it, and not the type of null
BindingPositions ==
    {i \in ResultPositions :
        ~isGeneric(ArgumentResult(i)) /\ ArgumentResult(i) # NullType}

FirstBinding == CHOOSE i \in BindingPositions : \A j \in BindingPositions : i <= j

\* the type the result typename stands for in this check
ResolvedResult ==
    IF IsDefined(ExpectedConcrete) THEN ExpectedConcrete
    ELSE IF BindingPositions # {} THEN ArgumentResult(FirstBinding)
    ELSE Undefined

\* the typecheck reports a type mismatch on the i-th argument
MismatchAt(i) ==
    /\ isErrors(typecheckResult)
    /\ \E k \in DOMAIN typecheckResult.errors :
          typecheckResult.errors[k] = errorAt(parsed.arguments[i].key, "TypeMismatch")

\* the checked call has the resolved type as its result and at every position
\* of the result typename
ResolvedAs(type) ==
    /\ typecheckResult.type.result = type
    /\ \A i \in ResultPositions : typecheckResult.type.params[i] = type

\* C18 (as stated): with a concrete expected type the checked call has that
\* type as result and at every position of the typename, and an argument there
\* whose own concrete result type differs is a type error; with an expected
\* typename the typename stands for the result type of the first argument in
\* such a position that is concrete.
C18_AsStated ==
    GenericCallChecked =>
        /\ Checked /\ IsDefined(ResolvedResult) => ResolvedAs(ResolvedResult)
        /\ IsDefined(ExpectedConcrete) =>
              \A i \in ResultPositions :
                  (~isGeneric(ArgumentResult(i)) /\ ArgumentResult(i) # ExpectedConcrete)
                      => MismatchAt(i)

\* C18 (amended): the same, the type error being reported for an argument
\* whose concrete result type is not accepted by the resolved type: another
\* primitive than an expected primitive; the type of null and, where a variant
\* is expected, the types of its members are accepted.  With an expected
\* typename and no concrete argument in such a position the typename is not
\* resolved.
C18_TypeNameResult ==
    GenericCallChecked =>
        /\ Checked /\ IsDefined(ResolvedResult) => ResolvedAs(ResolvedResult)
        /\ IsDefined(ResolvedResult) /\ ResolvedResult.kind = "primitive" =>
              \A i \in ResultPositions :
                  (/\ ~isGeneric(ArgumentResult(i))
                   /\ ArgumentResult(i) # ResolvedResult
                   /\ ArgumentResult(i) # NullType)
                      <=> MismatchAt(i)
        /\ IsDefined(ResolvedResult) /\ ResolvedResult.kind = "variant" =>
              \A i \in ResultPositions : ~MismatchAt(i)
        /\ ~IsDefined(ResolvedResult) =>
              typecheckResult = typeErrors(<<errorAt(<<>>, "UnresolvedGeneric")>>)

\* a coalesce of a number and a string checked against a typename: the
\* typename stands for Number and the string is a type error
C18_Witness ==
    /\ GenericCallChecked
    /\ parsed.name = "coalesce"
    /\ expectedType = typename("T")
    /\ Len(parsed.arguments) = 2
    /\ ArgumentResult(1) = NumberType
    /\ ArgumentResult(2) = StringType
    /\ ResolvedResult = NumberType
    /\ MismatchAt(2)

(***************************************************************************)
(* C19: typenames are bound one level deep                                  *)
(***************************************************************************)
\* the outermost call could take the type of its result only from inside an
\* argument: no concrete type is expected, no argument in a position of the
\* result typename has a concrete result type, and one of them is a call
\* declared to return a typename
OnlyInsideAnArgument ==
    /\ GenericCallChecked
    /\ ~IsDefined(ExpectedConcrete)
    /\ BindingPositions = {}
    /\ \E i \in ResultPositions : isGeneric(ArgumentResult(i))

ConcreteTypes == {NumberType, StringType, BooleanType, ValueType}

\* every call of a checked tree has a result type without typenames
AllResultsResolved(c) == \A n \in CallNodes(c) : ~isGeneric(n.type.result)

NestedCoalesce == Call1("coalesce", Call1("coalesce", JNum(1)))

CaseCallChecked == TypecheckDone /\ ~parsed.literal /\ parsed.name = "case"

\* the calls of case in a tree
CaseNodes(n) == {c \in CallNodes(n) : c.name = "case"}

\* assert(args.length === 1) of the compile rule holds for a call: pairs taken
\* off its arguments leave one
OddArguments(c) == Len(c.arguments) % 2 = 1

\* the typecheck reports an arity error for the call at a key
ArityErrorAt(key) ==
    /\ isErrors(typecheckResult)
    /\ \E k \in DOMAIN typecheckResult.errors :
          typecheckResult.errors[k] = errorAt(key, "ArityMismatch")

\* the params the outermost call is checked against are those it declares
CheckedAgainstDeclared ==
    (IsDefined(expectedType) /\ expectedType.kind = "lambda")
        => (TypecheckDone /\ ~parsed.literal /\ expectedType.params = parsed.type.params)

\* C20: a case call with an even number of arguments is rejected by typecheck
\* with an arity error, the arity of a case call with an odd number of
\* arguments is accepted, and in a tree typecheck has returned every case call
\* has an odd number of arguments, so that compiling it never fails the
\* assertion of the case rule.
C20_CaseArity ==
    /\ CaseCallChecked /\ ~OddArguments(parsed) =>
          typecheckResult = typeErrors(<<errorAt(parsed.key, "ArityMismatch")>>)
    /\ CaseCallChecked /\ OddArguments(parsed) => ~ArityErrorAt(parsed.key)
    /\ Checked => \A c \in CaseNodes(typecheckResult) : OddArguments(c)
    /\ (Checked /\ pc \in {"done", "called"} /\ CaseNodes(typecheckResult) # {})
          => compiled # thrown("AssertionError")

\* the same for a check against the params the call declares: an expected type
\* that is not a Lambda, or none
C20_OnDeclaredParams == CheckedAgainstDeclared => C20_CaseArity

\* a case call with no argument was accepted by typecheck and its compilation
\* failed the assertion
C20_AssertionFails ==
    /\ CaseCallChecked
    /\ Checked
    /\ Len(parsed.arguments) = 0
    /\ pc = "done"
    /\ compiled = thrown("AssertionError")

\* a case call with two arguments was rejected with the arity error
C20_EvenRejected ==
    /\ CaseCallChecked
    /\ Len(parsed.arguments) = 2
    /\ CheckedAgainstDeclared
    /\ typecheckResult = typeErrors(<<errorAt(<<>>, "ArityMismatch")>>)

(***************************************************************************)
(* C21: serializing a parsed tree                                           *)
(***************************************************************************)
\* parseExpression has returned a tree
ParsedTree == Parsed /\ isNode(parsed)

\* a call of match somewhere in a JSON expression
RECURSIVE MentionsMatch(_)
MentionsMatch(e) ==
    /\ e.j = "array"
    /\ \/ (Len(e.items) > 0 /\ e.items[1] = JStr("match"))
       \/ \E i \in DOMAIN e.items : MentionsMatch(e.items[i])

\* C21: for every JSON expression parseExpression accepts, serializing the
\* parsed tree gives the JSON expression back, a match with its label groups
\* included.
C21_RoundTrip == ParsedTree => serializeExpression(parsed, FALSE) = expr

\* the same for the expressions without a call of match
C21_RoundTripWithoutMatch ==
    (ParsedTree /\ ~MentionsMatch(expr)) => serializeExpression(parsed, FALSE) = expr

\* a parsed match is serialized as its input and its outputs, without the
\* labels
C21_LabelsDropped ==
    /\ ParsedTree
    /\ expr = JArr(<<JStr("match"), Call1("get", JStr("a")),
                      JNum(1), JStr("x"), JStr("a"), JStr("y"), JStr("z")>>)
    /\ serializeExpression(parsed, FALSE) =
           JArr(<<JStr("match"), Call1("get", JStr("a")), JStr("x"), JStr("y"), JStr("z")>>)

\* a sum of a number and a zoom call was parsed and serialized back
C21_PlainRoundTrip ==
    /\ ParsedTree
    /\ expr = JArr(<<JStr("+"), JNum(1), JArr(<<JStr("zoom")>>)>>)
    /\ serializeExpression(parsed, FALSE) = expr

(***************************************************************************)
(* C22: typecheck leaves its input as it was                                *)
(***************************************************************************)
\* the step in which typecheck is called and returns
TypecheckStep == pc = "typecheck" /\ pc' # "typecheck"

ExpectedKinds ==
    {NullType, NumberType, StringType, BooleanType, ColorType, ObjectType,
     InterpolationType, ValueType, T, U, vector(T), vector(ValueType), anyArray(T),
     array(NumberType, 4), array(T, 2), variant(<<vector(T), anyArray(T)>>),
     variant(<<vector(T), StringType>>)}

\* typename maps a match may be handed: empty, and with T bound
SomeTypenames == {NoTypenames, [NoTypenames EXCEPT !["T"] = NumberType]}

\* the null literals of a tree
NullLiterals(n) == {l \in Nodes(n) : l.literal /\ l.type = NullType}

\* the typecheck reports an error at a key
ErrorAt(key) ==
    /\ isErrors(typecheckResult)
    /\ \E k \in DOMAIN typecheckResult.errors : typecheckResult.errors[k].key = key

\* C23: where typecheck is called, match(expected, null) returns no error for
\* every expected type,
\* primitive, vector, array, variant or typename, and leaves both typename maps
\* as they were; typecheck reports no error at a null literal, whatever the
\* position of the argument; a call whose arguments in the positions of its
\* result typename are all null, with no concrete type expected, is left
\* unresolved, and a null before a number leaves the typename to the number.
C23_NullIsBottom ==
    /\ pc = "typecheck" =>
          \A expected \in ExpectedKinds, m1 \in SomeTypenames, m2 \in SomeTypenames :
              match(expected, NullType, m1, m2) = matchResult(NoError, m1, m2)
    /\ TypecheckDone => \A l \in NullLiterals(parsed) : ~ErrorAt(l.key)
    /\ (/\ GenericCallChecked
        /\ ~IsDefined(ExpectedConcrete)
        /\ \A i \in ResultPositions : ArgumentResult(i) = NullType)
          => typecheckResult = typeErrors(<<errorAt(parsed.key, "UnresolvedGeneric")>>)
    /\ (/\ GenericCallChecked
        /\ ~IsDefined(ExpectedConcrete)
        /\ expr = Call2("coalesce", JNull, JNum(1)))
          => /\ Checked
             /\ typecheckResult.type = lambda(NumberType, <<NumberType, NumberType>>)

\* a sum of null and a number was checked against Number and accepted, the
\* null literal in the place of a Number
C23_Witness ==
    /\ Checked
    /\ expr = Call2("+", JNull, JNum(1))
    /\ typecheckResult.type = lambda(NumberType, <<NumberType, NumberType>>)
    /\ typecheckResult.arguments[1] = literalNode(JNull, NullType, <<"1">>)

(***************************************************************************)
(* C24: the output type of a curve                                          *)
(***************************************************************************)
\* the compile rule of curve has run for the outermost call and has returned:
\* the call has a first stop, and its arguments compiled
CurveRuleReturned ==
    /\ Checked
    /\ pc \in {"done", "called"}
    /\ ~typecheckResult.literal
    /\ typecheckResult.name = "curve"
    /\ Len(typecheckResult.arguments) >= 4
    /\ ~isThrown(compiled)
    /\ ~compileArguments(typecheckResult, 1, <<>>, <<>>).thrown
    /\ Len(compileArguments(typecheckResult, 1, <<>>, <<>>).errors) = 0

\* a type the curve can interpolate: Number, Color or an array of Number
Interpolatable(type) ==
    \/ type \in {NumberType, ColorType}
    \/ (type.kind = "array" /\ type.itemType = NumberType)

\* the output type of the checked curve: the result type its typename stands for
CurveOutputType == typecheckResult.type.result

CurveInterpolation == typecheckResult.arguments[1].name

NotInterpolatableError ==
    compiled = compileErrors(<<errorAt(typecheckResult.key, "NonInterpolatableCurveOutput")>>)

\* the positions of the outputs of the stops among the arguments
OutputPositions == {i \in 4..Len(typecheckResult.arguments) : i % 2 = 0}

FirstOutputType == ResultTypeOf(typecheckResult.arguments[4])

\* the same decision taken on the type of the output of the first stop
C24_ByFirstOutput ==
    CurveRuleReturned =>
        (NotInterpolatableError
            <=> (CurveInterpolation # "step" /\ ~Interpolatable(FirstOutputType)))

\* a linear curve of output type Value whose second stop has a string for
\* output was compiled
C24_ValueCurveAccepted ==
    /\ CurveRuleReturned
    /\ expr = JArr(<<JStr("curve"), Call0("linear"), Call0("zoom"),
                     JNum(0), JNum(1), JNum(2), JStr("a")>>)
    /\ CurveOutputType = ValueType
    /\ compiled.result = "success"

\* the same curve with the string at the first stop was rejected
C24_ValueCurveRejected ==
    /\ CurveRuleReturned
    /\ expr = JArr(<<JStr("curve"), Call0("linear"), Call0("zoom"),
                     JNum(0), JStr("a"), JNum(2), JNum(1)>>)
    /\ CurveOutputType = ValueType
    /\ NotInterpolatableError

(***************************************************************************)
(* C25: matching against a variant                                          *)
(***************************************************************************)
\* match has returned for an expected variant
VariantMatched == pc = "matched" /\ matching.expected.kind = "variant"

\* the members of the expected variant that match t, each on the maps as given
MatchingMembers ==
    {i \in DOMAIN members(matching.expected) :
        match(members(matching.expected)[i], matching.t, matching.expectedTypenames,
              matching.tTypenames).error = NoError}

FirstMatchingMember == CHOOSE i \in MatchingMembers : \A j \in MatchingMembers : i <= j

\* what the first matching member leaves in the maps
FirstMemberResult ==
    match(members(matching.expected)[FirstMatchingMember], matching.t,
          matching.expectedTypenames, matching.tTypenames)

\* the maps of the caller are as they were before the call
MapsUntouched ==
    /\ matching.result.expectedTypenames = matching.expectedTypenames
    /\ matching.result.tTypenames = matching.tTypenames

\* the members are tried in order and the maps of the first one that matches
\* are merged into the maps of the caller; the members are not tried for a
\* t that is the expected variant, is the type of null, or is a typename
\* standing for an expected variant without typenames
FirstMemberMerged ==
    (/\ VariantMatched
     /\ matching.t # matching.expected
     /\ matching.t # NullType
     /\ (matching.t.kind = "typename" => isGeneric(matching.expected))
     /\ MatchingMembers # {})
        => /\ matching.result.error = NoError
           /\ matching.result.expectedTypenames =
                  extend(matching.expectedTypenames, FirstMemberResult.expectedTypenames)
           /\ matching.result.tTypenames =
                  extend(matching.tTypenames, FirstMemberResult.tTypenames)

\* C25: match against a variant merges into the maps of the caller the
\* bindings of the first member that matches, and whenever it returns an error
\* for an expected variant, t being a variant itself or not, the maps of the
\* caller are as they were before the call.
C25_MapsUntouchedOnError ==
    /\ FirstMemberMerged
    /\ (VariantMatched /\ matching.result.error # NoError) => MapsUntouched

\* the same, the maps being as they were when t is not itself a variant
C25_UntouchedUnlessVariant ==
    /\ FirstMemberMerged
    /\ (VariantMatched /\ matching.result.error # NoError /\ matching.t.kind # "variant")
          => MapsUntouched

\* match returned an error for a variant t whose first member had matched, and
\* left the binding of that member in the map of the caller
C25_BindingLeft ==
    /\ VariantMatched
    /\ matching.expected = variant(<<vector(T), StringType>>)
    /\ matching.t = variant(<<vector(NumberType), NumberType>>)
    /\ matching.expectedTypenames = NoTypenames
    /\ matching.result.error = "TypeMismatch"
    /\ matching.result.expectedTypenames["T"] = NumberType

(***************************************************************************)
(* C26: the flags follow the calls the tree contains                        *)
(***************************************************************************)
\* compileExpression has returned a compiled expression
CompiledSuccess ==
    /\ pc \in {"done", "called"}
    /\ Checked
    /\ ~isThrown(compiled)
    /\ compiled.result = "success"

\* a call of zoom in the tree
ContainsZoom(n) == \E c \in CallNodes(n) : c.name = "zoom"

\* a call in the tree that reads the feature: properties, geometry_type, id,
\* or a get or has without an object argument
ContainsFeatureAccess(n) ==
    \E c \in CallNodes(n) :
        \/ c.name \in {"properties", "geometry_type", "id"}
        \/ (c.name \in {"get", "has"} /\ Len(c.arguments) = 1)

\* what compile returns for a node of the checked tree, when it returns a
\* compiled expression
CompiledNodes ==
    {r \in {compile(Undefined, n) : n \in Nodes(typecheckResult)} :
        ~isThrown(r) /\ r.result = "success"}

RECURSIVE Subterms(_)
Subterms(type) ==
    {type} \cup
    (IF type = ValueType THEN Range(members(ValueType))
     ELSE IF type.kind \in {"vector", "array", "any_array"} THEN Subterms(type.itemType)
     ELSE IF type.kind = "variant"
          THEN UNION {Subterms(type.members[i]) : i \in DOMAIN type.members}
     ELSE IF type.kind = "nargs"
          THEN UNION {Subterms(type.types[i]) : i \in DOMAIN type.types}
     ELSE IF type.kind = "lambda"
          THEN Subterms(type.result)
               \cup UNION {Subterms(type.params[i]) : i \in DOMAIN type.params}
     ELSE {})

\* the types written on the nodes of a tree, with their subterms (a name
\* taken from the prototype of the registry carries no type)
TreeTypes(n) == UNION {Subterms(l.type) : l \in {k \in Nodes(n) : IsDefined(k.type)}}

\* compounds built around the recursive ValueType, with and without a typename
NestedValueTypes ==
    {ValueType, vector(ValueType), array(ValueType, 2), anyArray(ValueType),
     vector(vector(ValueType)), variant(<<ValueType, StringType>>),
     variant(<<vector(T), ValueType>>), nargs(Infinity, <<ValueType, T>>),
     lambda(ValueType, <<ValueType, nargs(Infinity, <<StringType, ValueType>>)>>),
     lambda(T, <<ValueType>>), lambda(ValueType, <<vector(T)>>),
     lambda(vector(ValueType), <<>>)}

\* a variant rebuilt from the members of ValueType: a copy, not the type itself
CopyOfValue(type) ==
    type.kind = "variant" /\ "members" \in DOMAIN type /\ type.members = members(ValueType)

\* isGeneric answers by the typenames of the type, and a type that is not
\* generic is returned as it is whatever the typenames are bound to
AnsweredByTypenames(type) ==
    /\ isGeneric(type) <=> \E s \in Subterms(type) : s.kind = "typename"
    /\ isGeneric(type) <=> MentionsTypeName(type)
    /\ ~isGeneric(type) =>
          \A typenames \in SomeTypenames :
              resolveTypenamesIfPossible(type, typenames) = type

\* C27: isGeneric has an answer for every type, ValueType and the compounds
\* around it included, and the answer is true exactly when a typename is among
\* the subterms of the type; resolveTypenamesIfPossible returns a type that is
\* not generic as it is; in the tree typecheck returns ValueType is never
\* replaced by a variant rebuilt from its members, and is written wherever the
\* parsed tree had it on a node typecheck kept.
C27_GenericAndIdentity ==
    /\ pc = "typecheck" => \A type \in NestedValueTypes : AnsweredByTypenames(type)
    /\ ParsedTree => \A type \in TreeTypes(parsed) : AnsweredByTypenames(type)
    /\ Checked =>
          /\ \A type \in TreeTypes(typecheckResult) :
                AnsweredByTypenames(type) /\ ~CopyOfValue(type)
          /\ \A c \in CallNodes(parsed) :
                IsDefined(c.type) /\ c.type.result = ValueType =>
                    \A d \in CallNodes(typecheckResult) :
                        d.key = c.key /\ d.name = c.name => d.type.result = ValueType

\* a checked tree in which a generic call was resolved around an argument of
\* the type ValueType
C27_Witness ==
    /\ Checked
    /\ \E c \in CallNodes(parsed), d \in CallNodes(typecheckResult) :
          /\ d.key = c.key
          /\ isGeneric(c.type)
          /\ ~isGeneric(d.type)
          /\ ValueType \in Subterms(d.type)
    /\ \E a \in CallNodes(typecheckResult) : a.type.result = ValueType

(***************************************************************************)
(* C28: what a parsed match keeps of its source array                       *)
(***************************************************************************)
\* the outermost array is a match the parser accepted
MatchAccepted == Parsed /\ IsMatchArray(expr) /\ isNode(parsed)

SourceLength == Len(expr.items)

\* the values of a parsed label group
GroupValues(group) == [k \in DOMAIN group |-> group[k].value]

\* C28: of a match array that parse accepts the element at index 1 is the
\* input, the elements after it up to the last are label groups and outputs in
\* pairs, and the last is the otherwise branch: arguments.length is
\* matchInputs.length + 2, and 2 * matchInputs.length + 3 is the length of the
\* source array.
C28_NothingDiscarded ==
    MatchAccepted =>
        /\ Len(parsed.arguments) = Len(parsed.matchInputs) + 2
        /\ 2 * Len(parsed.matchInputs) + 3 = SourceLength

\* C28 (what the parser does): the input is the element at index 1, the
\* otherwise is the last element, and the pairs are taken from index 2 while
\* two elements are left before the last; in an array of even length the
\* element before the last belongs to no pair.
C28_PairsBeforeTheLast ==
    MatchAccepted =>
        /\ Len(parsed.arguments) = Len(parsed.matchInputs) + 2
        /\ Len(parsed.matchInputs) = Cardinality(LabelPositions(expr))
        /\ parsed.arguments[1] = parseExpression(expr.items[2], <<1>>)
        /\ \A i \in LabelPositions(expr) :
              /\ GroupValues(parsed.matchInputs[i \div 2]) = GroupOf(Label(expr, i))
              /\ parsed.arguments[(i \div 2) + 1] = parseExpression(expr.items[i + 2], <<i>>)
        /\ parsed.arguments[Len(parsed.arguments)]
              = parseExpression(expr.items[SourceLength], <<SourceLength - 1>>)
        /\ 2 * Len(parsed.matchInputs) + 3 = SourceLength - ((SourceLength + 1) % 2)

\* a match of four elements has parsed to its input and its otherwise: the
\* element at index 2 is in neither matchInputs nor arguments
C28_ElementDropped ==
    /\ MatchAccepted
    /\ expr = JArr(<<JStr("match"), Call0("zoom"), JStr("a"), JNum(1)>>)
    /\ parsed.matchInputs = <<>>
    /\ parsed.arguments = <<parseExpression(Call0("zoom"), <<1>>),
                            literalNode(JNum(1), NumberType, <<"3">>)>>

\* a match of one pair has parsed to its input, one group and two outputs
C28_PairKept ==
    /\ MatchAccepted
    /\ SourceLength = 5
    /\ Len(parsed.matchInputs) = 1
    /\ Len(parsed.arguments) = 3

(***************************************************************************)
(* C29: the callback of getSimpleGlyphs                                     *)
(***************************************************************************)
\* the reports a call has had for one of its missing ranges; a range above
\* 65535 reports without naming itself
ReportsFor(call, range) ==
    {i \in DOMAIN call.reports :
        IF range * 256 > 65535 THEN call.reports[i].err = Unsupported
        ELSE call.reports[i].err # Unsupported /\ call.reports[i].range = range}

UnsupportedRanges(call) == {r \in call.missing : r * 256 > 65535}

\* every missing range of the call has reported back
AllReportedBack(call) ==
    /\ \A r \in call.missing \ UnsupportedRanges(call) : ReportsFor(call, r) # {}
    /\ Cardinality({i \in DOMAIN call.reports : call.reports[i].err = Unsupported})
          >= Cardinality(UnsupportedRanges(call))

\* the callback has been invoked at most once, and it has been invoked exactly
\* when every missing range has reported back; no range reports twice
CallbackOnceWhenAllReported ==
    \A c \in DOMAIN calls :
        /\ calls[c].callbacks \in {0, 1}
        /\ calls[c].callbacks = 1 <=> AllReportedBack(calls[c])
        /\ Len(calls[c].reports) <= Cardinality(calls[c].missing)
        /\ \A r \in calls[c].missing \ UnsupportedRanges(calls[c]) :
              Cardinality(ReportsFor(calls[c], r)) <= 1
        /\ \A g \in calls[c].glyphs : <<calls[c].fontstack, rangeOf(g)>> \in source.stacks

\* C29: getSimpleGlyphs invokes its callback exactly once per call, whatever
\* glyph ids are requested and however the range loads it starts end and
\* interleave: not before every missing range has reported back, never a
\* second time, and eventually once the loads are answered.
C29_CallbackExactlyOnce ==
    /\ []CallbackOnceWhenAllReported
    /\ \A c \in 1..MaxCalls : (Len(calls) >= c) ~> (Len(calls) >= c /\ calls[c].callbacks = 1)

\* a call that missed two ranges of the network has had an error for one and
\* glyphs for the other, the second range answered first, and has called back
C29_Witness ==
    \E c \in DOMAIN calls :
        /\ calls[c].missing = {0, 1}
        /\ calls[c].reports = <<[err |-> NoError, range |-> 1],
                                [err |-> NetworkError, range |-> 0]>>
        /\ calls[c].callbacks = 1
        /\ calls[c].glyphs = {300}

(***************************************************************************)
(* C30: the pending requests of loadRange                                   *)
(***************************************************************************)
\* the requests in flight for a fontstack and range
InFlight(key) == {i \in DOMAIN network.requests : network.requests[i] = key}

RequestKeys == Range(network.requests) \cup DOMAIN source.loading

\* the calls waiting for a range of the network: missed and not yet reported
Waiting(key) ==
    {c \in DOMAIN calls :
        /\ calls[c].fontstack = key[1]
        /\ key[2] \in calls[c].missing
        /\ ReportsFor(calls[c], key[2]) = {}}

\* one request at most is in flight for a fontstack and range, a pending entry
\* exists exactly while it is, and the entry queues the waiting calls, each
\* once, in the order of their calls
OneRequestPerRange ==
    \A key \in RequestKeys :
        /\ Cardinality(InFlight(key)) <= 1
        /\ key \in DOMAIN source.loading <=> InFlight(key) # {}
        /\ key \in DOMAIN source.loading =>
              /\ Range(source.loading[key]) = Waiting(key)
              /\ \A i, j \in DOMAIN source.loading[key] :
                    i < j => source.loading[key][i] < source.loading[key][j]

\* a response has just been handled: one request fewer is in flight
Responded == Len(network.requests') = Len(network.requests) - 1

\* the response handled called every queued callback once, in the order
\* queued, with its error and range, and removed the pending entry
QueueAnswered ==
    LET key == network.last'.key
        queue == source.loading[key]
    IN /\ network.last'.called = queue
       /\ \A c \in Range(queue) :
             calls'[c].reports
                = Append(calls[c].reports, [err |-> network.last'.err, range |-> key[2]])
       /\ \A c \in DOMAIN calls \ Range(queue) : calls'[c] = calls[c]
       /\ key \notin DOMAIN source.loading'

\* a call has just been made
Called == Len(calls') = Len(calls) + 1

\* the call made joined the pending entry of every range it misses whose
\* request is in flight, and started a request for every other such range
QueuedOrStarted ==
    LET c == Len(calls')
        keys == {<<calls'[c].fontstack, r>> : r \in
                    {r \in calls'[c].missing :
                        r * 256 <= 65535 /\ ~(r * 256 >= 19968 /\ r * 256 <= 40959)}}
        pending == keys \cap DOMAIN source.loading
    IN /\ \A key \in pending : source.loading'[key] = Append(source.loading[key], c)
       /\ \A key \in keys \ pending : source.loading'[key] = <<c>>
       /\ network.started' = network.started + Cardinality(keys \ pending)
       /\ \A key \in keys : Cardinality({i \in DOMAIN network.requests' :
                                            network.requests'[i] = key}) = 1

\* C30: loadRange keeps at most one request in flight for a fontstack and
\* range; a call that asks for a range whose request is pending is queued on
\* it; the response calls every queued callback once, in the order queued, and
\* removes the pending entry, so that a later loadRange for the range starts a
\* new request.
C30_OneRequestInFlight ==
    /\ []OneRequestPerRange
    /\ [][(Responded => QueueAnswered) /\ (Called => QueuedOrStarted)]_vars

\* two calls were queued on one request, its response was an error handed to
\* both in order, and a third call has started a second request for the range
C30_Witness ==
    /\ IsDefined(network.last)
    /\ network.last = [key |-> <<"Regular", 0>>, err |-> NetworkError, called |-> <<1, 2>>]
    /\ Len(calls) = 3
    /\ calls[1].reports = <<[err |-> NetworkError, range |-> 0]>>
    /\ calls[2].reports = <<[err |-> NetworkError, range |-> 0]>>
    /\ source.loading = [k \in {<<"Regular", 0>>} |-> <<3>>]
    /\ network.started = 2
    /\ network.requests = <<<<"Regular", 0>>>>

====
